---------------------------- MODULE Spec2Model ----------------------------
(***************************************************************************)
(* Model of the "multas" backend proxy: the /multas route (dispatcher) of  *)
(* backend-server.js and of server.js, and the source adapters it invokes. *)
(*                                                                         *)
(* One request is followed from the route handler through one adapter to   *)
(* the answer sent to the caller.  Every `await` of an adapter is a step:  *)
(* the request it issues is appended to `log`, and the next action         *)
(* receives the awaited value (chosen by the environment) and runs the     *)
(* adapter's code up to its next await, its return or its throw.           *)
(*                                                                         *)
(* Texts that the code inspects character by character (the identifier,    *)
(* table cells) are sequences of one-character strings.  Texts that the    *)
(* code only carries (tokens, cookie values) are opaque strings.  Markup   *)
(* is abstracted to what the code's selectors read from it.                *)
(***************************************************************************)
EXTENDS Integers, Sequences, FiniteSets, TLC

\* ------------------------------------------------------------------ bounds

\* Largest number of rows matched by a row selector in one response.
MaxRows == 2

\* ------------------------------------------------------------- characters

UpperLetters == {"A", "B", "G", "P"}
LowerLetters == {"a", "b", "g", "p"}
Digits == {"0", "1", "2", "3", "4", "5", "6", "7", "8", "9"}
Whitespace == {" "}

\* String.prototype.toUpperCase on one character of the model's alphabet.
toUpperCase(c) ==
    CASE c = "a" -> "A" [] c = "b" -> "B" [] c = "g" -> "G" [] c = "p" -> "P"
      [] OTHER -> c

\* String.prototype.toLowerCase on one character of the model's alphabet.
toLowerCase(c) ==
    CASE c = "A" -> "a" [] c = "B" -> "b" [] c = "G" -> "g" [] c = "P" -> "p"
      [] OTHER -> c

MapSeq(s, Op(_)) == [i \in 1..Len(s) |-> Op(s[i])]

\* --------------------------------------------------------------- sentinels

\* The value of a query parameter that the caller did not send.
Absent == "<absent>"
\* JavaScript's null in a record field (a text field is a sequence of
\* characters, and no text is this one).
Null == << "<null>" >>

\* ----------------------------------------------------------------- inputs

\* ?dominio= values a caller sends: both layouts, a lowercase one with
\* whitespace, one matching neither layout, the empty string.
RawDominios ==
    { <<"A", "B", "A", "1", "2", "3">>,
      <<"A", "B", "1", "2", "3", "B", "A">>,
      <<"a", "b", " ", "a", "1", "2", "3">>,
      <<"A", "B", "1">>,
      <<>> }

\* The fifteen ids with a case of their own in backend-server.js.
KnownFuentes ==
    { "pba", "caba", "santafe", "posadas", "corrientes", "entrerios",
      "misiones", "chaco", "rosario", "neuquen", "santarosa", "mendoza",
      "cordoba", "mendozacaminera", "salta" }

\* The ids with a case of their own in server.js.
LegacyFuentes == { "pba", "caba", "santafe" }

\* ?fuente= values a caller sends.
RawFuentes == KnownFuentes \cup { "ansv", "__unknown__", Absent }

\* The two programs of the repository.
Servers == { "backend-server.js", "server.js" }

\* Opaque token and cookie values; "" is an absent or empty field.
TokenValues == { "", "t1", "t2" }

VARIABLES
    srv,      \* which of the two programs is running
    pc,       \* position of the request: idle, an await of an adapter, done
    query,    \* req.query: the dominio and fuente the caller sent
    fuente,   \* the route's `fuente` (after the default was applied)
    clean,    \* the route's `clean`
    invoked,  \* the adapter calls made by the route for this request
    ctx,      \* the locals of the running adapter
    log,      \* the requests issued by the running adapter, in order
    rcvd,     \* the values its awaits resolved to (or rejected with), in order
    outcome,  \* what the adapter call gave the route: a return or a throw
    resp,     \* the answer sent to the caller
    calls,    \* adapter invocations in flight at the same time, each with its locals
    sample,   \* the input of a mapping taken alone: the amount and status
              \* text of an upstream row, or a plaintext and a key
    parsed    \* what the mappings made of the sample

vars == << srv, pc, query, fuente, clean, invoked, ctx, log, rcvd, outcome, resp,
           calls, sample, parsed >>

\* The variables of the single request, of the invocations in flight and of
\* the row mappings.
requestVars == << srv, pc, query, fuente, clean, invoked, ctx, log, rcvd, outcome, resp >>
callVars == << calls >>
parseVars == << sample, parsed >>

\* ------------------------------------------------------------ identifiers

IsLetters(s) == \A i \in 1..Len(s) : s[i] \in UpperLetters
IsDigits(s) == \A i \in 1..Len(s) : s[i] \in Digits

\* /^[A-Z]{3}\d{3}$/.test(d)
IsOldFormat(d) ==
    /\ Len(d) = 6
    /\ IsLetters(SubSeq(d, 1, 3))
    /\ IsDigits(SubSeq(d, 4, 6))

\* A variant that tests the first three characters only.
IsMercosur_prefixOnly(d) ==
    /\ Len(d) >= 3
    /\ IsLetters(SubSeq(d, 1, 2))
    /\ IsDigits(SubSeq(d, 3, 3))

\* /^[A-Z]{2}\d{3}[A-Z]{2}$/.test(d)
IsMercosur(d) ==
    /\ Len(d) = 7
    /\ IsLetters(SubSeq(d, 1, 2))
    /\ IsDigits(SubSeq(d, 3, 5))
    /\ IsLetters(SubSeq(d, 6, 7))

\* dominio.replace(/\s/g, '').toUpperCase()
Clean(dominio) ==
    MapSeq(SelectSeq(dominio, LAMBDA c : c \notin Whitespace), toUpperCase)

\* ---------------------------------------------------------------- cookies

\* A Set-Cookie header is a pair << key, value >>; a response carries a
\* sequence of them.  A jar is a sequence of pairs with distinct keys.
CookieHeaders ==
    { <<>>, << <<"sid", "c1">> >>, << <<"sid", "c2">>, <<"aux", "c3">> >> }

RECURSIVE JarPut(_, _)
\* CookieJar.setCookie: replace the value of a stored key, else append.
JarPut(jar, cookie) ==
    IF jar = <<>> THEN << cookie >>
    ELSE IF Head(jar)[1] = cookie[1] THEN << cookie >> \o Tail(jar)
    ELSE << Head(jar) >> \o JarPut(Tail(jar), cookie)

RECURSIVE JarStore(_, _)
\* What axios-cookiejar-support does with a response's Set-Cookie headers.
JarStore(jar, headers) ==
    IF headers = <<>> THEN jar
    ELSE JarStore(JarPut(jar, Head(headers)), Tail(headers))

\* ------------------------------------------------------------ step results

\* An adapter step ends at its next await (issuing a request), with the
\* adapter's return, or with a throw.
Await(p, req, c) == [tag |-> "await", pc |-> p, req |-> req, ctx |-> c]
Returned(recs) == [tag |-> "returned", infracciones |-> recs]
Threw(msg) == [tag |-> "threw", message |-> msg]

\* A request: op is GET, POST or solver; step names its place in the
\* choreography; sent is what it carries.
Req(op, step, url, sent) == [op |-> op, step |-> step, url |-> url, sent |-> sent]

NoQuery == [dominio |-> <<>>, fuente |-> Absent]
NoCtx == [none |-> TRUE]
NoOutcome == [tag |-> "none"]
NoResp == [status |-> 0]
NoSample == [none |-> TRUE]

\* ------------------------------------------------------------------- text

\* String.prototype.includes
Includes(s, sub) ==
    \E i \in 1..(Len(s) - Len(sub) + 1) : SubSeq(s, i, i + Len(sub) - 1) = sub

\* x || null, for a text
OrNull(t) == IF t = <<>> THEN Null ELSE t

\* a || b, for texts (undefined and '' are both falsy)
Or(a, b) == IF a # <<>> THEN a ELSE b

\* cols[k] || '' (k counts from 0, as in the code)
Col(cols, k) == IF k + 1 <= Len(cols) THEN cols[k + 1] ELSE <<>>

PAGADA == <<"p", "a", "g", "a", "d", "a">>
PENDIENTE == <<"p", "e", "n", "d", "i", "e", "n", "t", "e">>

\* text.toLowerCase().includes('pag') ? 'pagada' : 'pendiente'
EstadoOf(text) ==
    IF Includes(MapSeq(text, toLowerCase), <<"p", "a", "g">>)
    THEN PAGADA ELSE PENDIENTE

\* ---------------------------------------------------------------- numbers

\* A number is << m, e >>, standing for m / 10^e, with no trailing zero in
\* the fraction; NaN is a value of its own.
NaN == << "NaN" >>

RECURSIVE Normalize(_, _)
Normalize(m, e) ==
    IF e > 0 /\ m % 10 = 0 THEN Normalize(m \div 10, e - 1) ELSE << m, e >>

DigitValue(c) ==
    CASE c = "0" -> 0 [] c = "1" -> 1 [] c = "2" -> 2 [] c = "3" -> 3
      [] c = "4" -> 4 [] c = "5" -> 5 [] c = "6" -> 6 [] c = "7" -> 7
      [] c = "8" -> 8 [] c = "9" -> 9

RECURSIVE ToNat(_, _)
\* The digits of s appended to the number acc.
ToNat(acc, s) ==
    IF s = <<>> THEN acc ELSE ToNat(acc * 10 + DigitValue(Head(s)), Tail(s))

RECURSIVE DigitRun(_)
\* The longest prefix of s made of digits.
DigitRun(s) ==
    IF s = <<>> \/ Head(s) \notin Digits THEN <<>>
    ELSE << Head(s) >> \o DigitRun(Tail(s))

\* parseFloat on a text without sign, exponent or leading whitespace: the
\* longest prefix digits [ "." digits ], NaN when that prefix has no digit.
parseFloat(s) ==
    LET int == DigitRun(s)
        rest == SubSeq(s, Len(int) + 1, Len(s))
        frac == IF rest # <<>> /\ Head(rest) = "." THEN DigitRun(Tail(rest))
                ELSE <<>>
    IN  IF int = <<>> /\ frac = <<>> THEN NaN
        ELSE Normalize(ToNat(ToNat(0, int), frac), Len(frac))

\* A variant that keeps a zero amount.
NumOrNull_keepsZero(v) == IF v = NaN THEN Null ELSE v

\* x || null, for a number (NaN and 0 are falsy)
NumOrNull(v) == IF v = NaN \/ v[1] = 0 THEN Null ELSE v

\* s.replace(/[^0-9.]/g, '')
KeepDigitsDot(s) == SelectSeq(s, LAMBDA c : c \in Digits \cup {"."})

\* s.replace(/[^0-9.,]/g, '')
KeepDigitsDotComma(s) == SelectSeq(s, LAMBDA c : c \in Digits \cup {".", ","})

RECURSIVE ReplaceFirstComma(_)
\* s.replace(',', '.'): the first comma only
ReplaceFirstComma(s) ==
    IF s = <<>> THEN <<>>
    ELSE IF Head(s) = "," THEN << "." >> \o Tail(s)
    ELSE << Head(s) >> \o ReplaceFirstComma(Tail(s))

\* parseFloat((cell || '').replace(/[^0-9.]/g, '')) || null
ImporteDot(cell) == NumOrNull(parseFloat(KeepDigitsDot(cell)))

\* parseFloat((cell || '').replace(/[^0-9.,]/g, '').replace(',', '.')) || null
ImporteComma(cell) ==
    NumOrNull(parseFloat(ReplaceFirstComma(KeepDigitsDotComma(cell))))

\* ------------------------------------------------------------------- rows

\* All sequences over S of length at most n.
SeqsUpTo(S, n) == UNION { [1..k -> S] : k \in 0..n }

\* The rows a selector matches: the td texts of each, trimmed.  A header
\* row has th cells only, so no td.
RowHeader == <<>>
RowOneCell == << <<"b">> >>
RowTwoCells == << <<"A", "0">>, <<"0", "1">> >>
RowPaid ==
    << <<"A", "1">>, <<"0", "2">>, <<"b">>, <<"g">>,
       <<"$", "1", ".", "2", "3", "4", ",", "5", "6">>,
       <<"P", "A", "G", "A", "D", "A">>, <<"B">> >>
RowPending ==
    << <<"A", "2">>, <<>>, <<"a">>, <<>>, <<"0">>, <<"b">>, <<>> >>

RowKinds == { RowHeader, RowOneCell, RowTwoCells, RowPaid, RowPending }
RowSeqs == SeqsUpTo(RowKinds, MaxRows)

\* rows.each((i, row) => ...) pushing Make(cols) for each row that Keep(i,
\* cols) accepts (i counts from 0), in the order of the rows.
EachRow(rows, Keep(_, _), Make(_)) ==
    LET kept == SelectSeq([i \in 1..Len(rows) |-> i],
                          LAMBDA i : Keep(i - 1, rows[i]))
    IN  [j \in 1..Len(kept) |-> Make(rows[kept[j]])]

\* An item of a JSON list is an object, modelled as a record of texts (a
\* number by its decimal text), or null.  i.f for an absent field is
\* undefined, which every use in the code treats like ''.
Get(i, f) == IF f \in DOMAIN i THEN i[f] ELSE <<>>

\* ------------------------------------------------------------ JSON values

\* A field of a parsed JSON body that the code expects to hold a list:
\* undefined, an array of items, or some other truthy value (an object).
Undef == [kind |-> "undefined"]
Arr(items) == [kind |-> "array", items |-> items]
Obj == [kind |-> "object"]

\* a || b, for such values (an array, even empty, is truthy)
OrV(a, b) == IF a.kind # "undefined" THEN a ELSE b

NullItem == [null |-> TRUE]
IsNullItem(i) == "null" \in DOMAIN i

ItemPaid ==
    [ nroActa |-> <<"A", "1">>, fecha |-> <<"0", "2">>,
      descripcion |-> <<"b">>, importe |-> <<"1", "2", ".", "5">>,
      estado |-> <<"P", "A", "G", "A", "D", "A">>, titular |-> <<"B">> ]
ItemOther ==
    [ acta |-> <<>>, monto |-> <<"0">>, estado |-> <<"A", "B">> ]

ItemLists ==
    { <<>>, << ItemPaid >>, << ItemOther, ItemPaid >>, << ItemPaid, NullItem >> }

\* list.forEach(i => push(Make(i))) where Make reads fields of i: a null
\* item raises a TypeError after the items before it were pushed.
RECURSIVE PushedBeforeNull(_)
PushedBeforeNull(list) ==
    IF list = <<>> \/ IsNullItem(Head(list)) THEN <<>>
    ELSE << Head(list) >> \o PushedBeforeNull(Tail(list))

HasNullItem(list) == \E k \in 1..Len(list) : IsNullItem(list[k])

\* ------------------------------------------------------------------- route

MsgFaltaDominio == "Falta el parametro dominio"
MsgDominioInvalido == "Dominio invalido. Usar ABC123 o AB123CD"

\* A variant of the switch with one case missing and one case without
\* its break.
SwitchBackend_missingCase(f) ==
    CASE f = "pba" -> "fetchPBA"
      [] f = "caba" -> "fetchCABA"
      [] f = "santafe" -> "fetchSantaFe"
      [] f = "posadas" -> "fetchPosadas"
      [] f = "corrientes" -> "fetchCorrientes"
      [] f = "entrerios" -> "fetchEntreRios"
      [] f = "misiones" -> "fetchMisiones"
      [] f = "chaco" -> "fetchChaco"
      [] f = "rosario" -> "fetchRosario"
      [] f = "neuquen" -> "fetchNeuquen"
      [] f = "santarosa" -> "fetchSantaRosa"
      [] f = "mendoza" -> "fetchMendozaCaminera"
      [] f = "cordoba" -> "fetchCordoba"
      [] f = "mendozacaminera" -> "fetchMendozaCaminera"
      [] OTHER -> "fetchANSV"

\* The switch of backend-server.js.
SwitchBackend(f) ==
    CASE f = "pba" -> "fetchPBA"
      [] f = "caba" -> "fetchCABA"
      [] f = "santafe" -> "fetchSantaFe"
      [] f = "posadas" -> "fetchPosadas"
      [] f = "corrientes" -> "fetchCorrientes"
      [] f = "entrerios" -> "fetchEntreRios"
      [] f = "misiones" -> "fetchMisiones"
      [] f = "chaco" -> "fetchChaco"
      [] f = "rosario" -> "fetchRosario"
      [] f = "neuquen" -> "fetchNeuquen"
      [] f = "santarosa" -> "fetchSantaRosa"
      [] f = "mendoza" -> "fetchMendoza"
      [] f = "cordoba" -> "fetchCordoba"
      [] f = "mendozacaminera" -> "fetchMendozaCaminera"
      [] f = "salta" -> "fetchSalta"
      [] OTHER -> "fetchANSV"

\* The switch of server.js.
SwitchLegacy(f) ==
    CASE f = "pba" -> "fetchPBA"
      [] f = "caba" -> "fetchCABA"
      [] f = "santafe" -> "fetchSantaFe"
      [] OTHER -> "fetchANSV"

Switch(s, f) == IF s = "backend-server.js" THEN SwitchBackend(f) ELSE SwitchLegacy(f)

\* const { dominio, fuente = 'ansv' } = req.query
DefaultFuente(rawFuente) == IF rawFuente = Absent THEN "ansv" ELSE rawFuente

\* A variant that answers an empty list as an error.
JsonOk_emptyAsError(d, f, recs) ==
    IF recs = <<>>
    THEN [status |-> 404, error |-> << "Sin resultados" >>]
    ELSE [status |-> 200, dominio |-> d, fuente |-> f, infracciones |-> recs]

\* A variant of the catch that answers a fixed text.
CatchErr_generic(f, message) ==
    [status |-> 502, error |-> << "Error al consultar la fuente" >>]

\* res.json({ dominio: clean, fuente, infracciones })
JsonOk(d, f, recs) ==
    [status |-> 200, dominio |-> d, fuente |-> f, infracciones |-> recs]

\* res.status(502).json({ error: `Error al consultar ${fuente}: ${err.message}` })
CatchErr(f, message) ==
    [status |-> 502, error |-> << "Error al consultar ", f, ": ", message >>]

\* res.status(400).json({ error })
BadRequest(message) == [status |-> 400, error |-> << message >>]

\* The route handler up to the switch: the 400 answers, or the call of the
\* adapter the switch selects.  A missing ?dominio= and an empty one are
\* both falsy.
multas ==
    /\ pc = "idle"
    /\ \E rawDominio \in RawDominios, rawFuente \in RawFuentes :
         LET f == DefaultFuente(rawFuente)
             c == Clean(rawDominio)
         IN  /\ query' = [dominio |-> rawDominio, fuente |-> rawFuente]
             /\ fuente' = f
             /\ log' = <<>>
             /\ rcvd' = <<>>
             /\ ctx' = NoCtx
             /\ outcome' = NoOutcome
             /\ IF rawDominio = <<>>
                THEN /\ clean' = <<>>
                     /\ invoked' = <<>>
                     /\ resp' = BadRequest(MsgFaltaDominio)
                     /\ pc' = "done"
                ELSE IF ~IsOldFormat(c) /\ ~IsMercosur(c)
                THEN /\ clean' = c
                     /\ invoked' = <<>>
                     /\ resp' = BadRequest(MsgDominioInvalido)
                     /\ pc' = "done"
                ELSE /\ clean' = c
                     /\ invoked' = << [adapter |-> Switch(srv, f), dominio |-> c] >>
                     /\ resp' = NoResp
                     /\ pc' = "call"
    /\ UNCHANGED << srv, callVars, parseVars >>

\* A variant whose catch falls back to the ANSV adapter when another
\* adapter threw.
Finish_fallback(r, got) ==
    IF r.tag = "threw" /\ Len(invoked) = 1 /\ invoked[1].adapter # "fetchANSV"
    THEN /\ invoked' = Append(invoked, [adapter |-> "fetchANSV", dominio |-> clean])
         /\ pc' = "call"
         /\ rcvd' = rcvd \o got
         /\ ctx' = NoCtx
         /\ UNCHANGED << srv, query, fuente, clean, log, outcome, resp,
                         callVars, parseVars >>
    ELSE /\ outcome' = r
         /\ rcvd' = rcvd \o got
         /\ resp' = IF r.tag = "returned"
                    THEN JsonOk(clean, fuente, r.infracciones)
                    ELSE CatchErr(fuente, r.message)
         /\ pc' = "done"
         /\ UNCHANGED << srv, query, fuente, clean, invoked, ctx, log,
                         callVars, parseVars >>

\* The end of the try block: the adapter returned, or the catch.  got
\* holds the awaited value the step received, if it received one.
Finish(r, got) ==
    /\ outcome' = r
    /\ rcvd' = rcvd \o got
    /\ resp' = IF r.tag = "returned"
               THEN JsonOk(clean, fuente, r.infracciones)
               ELSE CatchErr(fuente, r.message)
    /\ pc' = "done"
    /\ UNCHANGED << srv, query, fuente, clean, invoked, ctx, log, callVars, parseVars >>

\* An adapter step ran: it awaits its next request, or the call ended.
Advance(r, got) ==
    IF r.tag = "await"
    THEN /\ pc' = r.pc
         /\ log' = Append(log, r.req)
         /\ rcvd' = rcvd \o got
         /\ ctx' = r.ctx
         /\ UNCHANGED << srv, query, fuente, clean, invoked, outcome, resp,
                         callVars, parseVars >>
    ELSE Finish(r, got)

Calling(s, adapter) ==
    /\ pc = "call"
    /\ srv = s
    /\ invoked[Len(invoked)].adapter = adapter

At(s, p) == pc = p /\ srv = s

\* The identifier the running adapter was called with.
dominio == invoked[Len(invoked)].dominio

Backend == "backend-server.js"
Legacy == "server.js"

\* ------------------------------------------------------- awaited failures

\* The awaits on the challenge solver.
SolverPcs == { "ansv_captcha", "pba_captcha", "caba_captcha", "rosario_captcha",
               "salta_captcha" }

\* What a rejected await throws: axios on a network error, a timeout or a
\* status it does not accept; the solver on a provider error.
RejectMessages(p) ==
    IF p \in SolverPcs THEN { "ERROR_CAPTCHA_UNSOLVABLE" }
    ELSE { "timeout of 15000ms exceeded", "Request failed with status code 500" }

\* A variant in which a rejection of the solver is caught by nothing and
\* ends the process.
Reject_solverFatal ==
    /\ pc \notin {"idle", "call", "done", "exited"}
    /\ \E m \in RejectMessages(pc) :
         IF pc \in SolverPcs
         THEN /\ pc' = "exited"
              /\ rcvd' = rcvd \o << [rejected |-> m] >>
              /\ UNCHANGED << srv, query, fuente, clean, invoked, ctx, log, outcome,
                              resp, callVars, parseVars >>
         ELSE Finish(Threw(m), << [rejected |-> m] >>)

\* The awaited request of the running adapter rejects: the adapter has no
\* try around its awaits, so the throw reaches the route's catch.
Reject ==
    /\ pc \notin {"idle", "call", "done"}
    /\ \E m \in RejectMessages(pc) : Finish(Threw(m), << [rejected |-> m] >>)

\* The answer was sent and the handler's locals are gone: the process
\* waits for its next request.
listen ==
    /\ pc = "done"
    /\ pc' = "idle"
    /\ query' = NoQuery
    /\ fuente' = "ansv"
    /\ clean' = <<>>
    /\ invoked' = <<>>
    /\ ctx' = NoCtx
    /\ log' = <<>>
    /\ rcvd' = <<>>
    /\ outcome' = NoOutcome
    /\ resp' = NoResp
    /\ UNCHANGED << srv, callVars, parseVars >>

\* ------------------------------------------- ANSV / SINAI (backend-server.js)

MsgAnsvFormato == "El portal ANSV/SINAI solo admite patentes en formato antiguo (ABC123). El formato Mercosur (AB123CD) no esta soportado."
MsgAnsvSiteKey == "No se encontro el site key de reCAPTCHA en el portal ANSV/SINAI."

AnsvPageUrl == "https://consultainfracciones.seguridadvial.gob.ar/"

\* The home page of the portal, as the selectors and the site-key pattern
\* read it: "" is a field that is absent or empty.
AnsvHomes ==
    [ viewState : {"", "t1"}, viewStateGenerator : {"t2"},
      eventValidation : {"", "t2"}, siteKey : {"", "k1"},
      setCookie : { <<>>, << <<"sid", "c1">> >> } ]

\* What the solver resolves to.
CaptchaResults == [ data : {"g1", "g2"} ]

\* The answer to the postback: the rows its tables hold, whether its text
\* holds a "{", and what JSON.parse makes of the text.
NotJson == [kind |-> "notjson"]
AnsvJsons ==
    { [kind |-> "json", infracciones |-> Undef, data |-> Undef, items |-> Undef],
      [kind |-> "json", infracciones |-> Arr(<< ItemPaid >>), data |-> Undef, items |-> Undef],
      [kind |-> "json", infracciones |-> Undef, data |-> Arr(<< ItemOther, ItemPaid >>), items |-> Undef],
      [kind |-> "json", infracciones |-> Undef, data |-> Arr(<< ItemPaid, NullItem >>), items |-> Undef],
      [kind |-> "json", infracciones |-> Undef, data |-> Undef, items |-> Obj] }
AnsvBodies ==
    [ rows : RowSeqs, brace : BOOLEAN, json : {NotJson} ]
      \cup [ rows : {<<>>}, brace : {TRUE}, json : AnsvJsons ]

\* Minimum number of cells of a row of the ANSV table.
AnsvMinCols == 3

\* The record of one table row.
AnsvRowRecord(cols) ==
    [ acta |-> OrNull(Col(cols, 0)),
      fecha |-> OrNull(Col(cols, 1)),
      descripcion |-> OrNull(Col(cols, 2)),
      lugar |-> OrNull(Col(cols, 3)),
      importe |-> ImporteDot(Col(cols, 4)),
      estado |-> EstadoOf(Col(cols, 5)),
      jurisdiccion |-> Or(Col(cols, 6), <<"N", "a", "c", "i", "o", "n", "a", "l">>) ]

AnsvKeep(i, cols) == Len(cols) >= AnsvMinCols

\* The record of one item of the JSON fallback.
AnsvItemRecord(i) ==
    [ acta |-> OrNull(Or(Get(i, "nroActa"), Get(i, "acta"))),
      fecha |-> OrNull(Get(i, "fecha")),
      descripcion |-> OrNull(Or(Get(i, "descripcion"), Get(i, "motivo"))),
      lugar |-> OrNull(Or(Get(i, "lugar"), Get(i, "direccion"))),
      importe |-> NumOrNull(parseFloat(Or(Or(Get(i, "importe"), Get(i, "monto")), <<"0">>))),
      estado |-> MapSeq(Or(Get(i, "estado"), PENDIENTE), toLowerCase),
      jurisdiccion |-> Or(Get(i, "jurisdiccion"), <<"N", "a", "c", "i", "o", "n", "a", "l">>) ]

\* try { JSON.parse; list = ...; list.forEach(push) } catch(_) {}: what was
\* pushed when the block ended or threw.
AnsvJsonFallback(json) ==
    IF json.kind = "notjson" THEN <<>>
    ELSE LET list == OrV(OrV(OrV(json.infracciones, json.data), json.items), Arr(<<>>))
         IN  IF list.kind # "array" THEN <<>>
             ELSE MapSeq(PushedBeforeNull(list.items), AnsvItemRecord)

\* A variant without the format check.
fetchANSV_begin_unchecked(d) ==
    Await("ansv_home",
          Req("GET", "session", AnsvPageUrl, [cookies |-> <<>>]),
          [jar |-> <<>>])

\* fetchANSV up to its first await: the format check, then the GET.
fetchANSV_begin(d) ==
    IF ~IsOldFormat(d) THEN Threw(MsgAnsvFormato)
    ELSE Await("ansv_home",
               Req("GET", "session", AnsvPageUrl, [cookies |-> <<>>]),
               [jar |-> <<>>])

\* From the home page to the solver: hidden fields, site key.
fetchANSV_home(d, c, home) ==
    IF home.siteKey = "" THEN Threw(MsgAnsvSiteKey)
    ELSE Await("ansv_captcha",
               Req("solver", "challenge", AnsvPageUrl, [siteKey |-> home.siteKey]),
               [ jar |-> JarStore(c.jar, home.setCookie),
                 viewState |-> home.viewState,
                 viewStateGenerator |-> home.viewStateGenerator,
                 eventValidation |-> home.eventValidation ])

\* From the solution to the postback.
fetchANSV_solved(d, c, captchaResult) ==
    Await("ansv_post",
          Req("POST", "submit", AnsvPageUrl,
              [ VIEWSTATE |-> c.viewState,
                VIEWSTATEGENERATOR |-> c.viewStateGenerator,
                EVENTVALIDATION |-> c.eventValidation,
                txDominio |-> d,
                recaptcha |-> captchaResult.data,
                cookies |-> c.jar ]),
          c)

\* From the answer to the return: table rows, then the JSON fallback.
fetchANSV_res(d, c, body) ==
    LET infracciones == EachRow(body.rows, AnsvKeep, AnsvRowRecord)
    IN  IF infracciones = <<>> /\ body.brace
        THEN Returned(AnsvJsonFallback(body.json))
        ELSE Returned(infracciones)

ANSV_call == /\ Calling(Backend, "fetchANSV")
             /\ Advance(fetchANSV_begin(dominio), <<>>)
ANSV_home == /\ At(Backend, "ansv_home")
             /\ \E home \in AnsvHomes : Advance(fetchANSV_home(dominio, ctx, home), << home >>)
ANSV_solved == /\ At(Backend, "ansv_captcha")
               /\ \E r \in CaptchaResults : Advance(fetchANSV_solved(dominio, ctx, r), << r >>)
ANSV_res == /\ At(Backend, "ansv_post")
            /\ \E body \in AnsvBodies : Advance(fetchANSV_res(dominio, ctx, body), << body >>)

\* -------------------------------------- Provincia Buenos Aires (backend-server.js)

MsgPbaCsrf == "No se encontro el CSRF token en el portal PBA."
MsgPbaError == "El portal PBA devolvio un error (posiblemente captcha invalido)."
MsgNotAFunction == "list.map is not a function"
MsgNullItem == "Cannot read properties of null"

PbaPageUrl == "https://infraccionesba.gba.gob.ar/consulta-infraccion"
PbaRestUrl == "https://infraccionesba.gba.gob.ar/rest/consultar-infraccion"
PbaSiteKey == "6LeGXnkUAAAAAGHv-jMgqrOMx4eqHCh3_fEeP9wR"

\* The page: the token attribute of #root ("" when the pattern finds none).
PbaHomes == [ token : TokenValues, setCookie : { <<>>, << <<"sid", "c1">> >> } ]

\* The REST answer: a truthy error field, and the infracciones field.
PbaDatas ==
    [ error : BOOLEAN,
      infracciones : { Undef, Obj } \cup { Arr(l) : l \in ItemLists } ]

PbaItemRecord(i) ==
    [ acta |-> OrNull(Or(Or(Get(i, "nroActa"), Get(i, "numeroCausa")), Get(i, "acta"))),
      fecha |-> OrNull(Or(Get(i, "fechaInfraccion"), Get(i, "fecha"))),
      descripcion |-> OrNull(Or(Or(Get(i, "descripcionFalta"), Get(i, "descripcion")), Get(i, "articulo"))),
      lugar |-> OrNull(Or(Get(i, "lugar"), Get(i, "juzgado"))),
      importe |-> NumOrNull(parseFloat(Or(Or(Or(Get(i, "importe"), Get(i, "monto")), Get(i, "deuda")), <<"0">>))),
      estado |-> EstadoOf(Or(Get(i, "estado"), PENDIENTE)),
      jurisdiccion |-> Or(Or(Get(i, "juzgado"), Get(i, "jurisdiccion")), <<"P", "r", "o", "v", "i", "n", "c", "i", "a", " ", "d", "e", " ", "B", "u", "e", "n", "o", "s", " ", "A", "i", "r", "e", "s">>) ]

\* list.map(Make), for a value the code takes for a list without checking:
\* a TypeError when it is no array or holds a null item.
MapList(list, Make(_)) ==
    IF list.kind # "array" THEN Threw(MsgNotAFunction)
    ELSE IF HasNullItem(list.items) THEN Threw(MsgNullItem)
    ELSE Returned(MapSeq(list.items, Make))

fetchPBA_begin(d) ==
    Await("pba_home", Req("GET", "session", PbaPageUrl, [cookies |-> <<>>]),
          [jar |-> <<>>])

fetchPBA_home(d, c, home) ==
    IF home.token = "" THEN Threw(MsgPbaCsrf)
    ELSE Await("pba_captcha",
               Req("solver", "challenge", PbaPageUrl, [siteKey |-> PbaSiteKey]),
               [jar |-> JarStore(c.jar, home.setCookie), csrfToken |-> home.token])

\* A variant that asks the solver a second time before the REST call.
fetchPBA_solved_twice(d, c, captchaResult) ==
    IF "asked" \in DOMAIN c
    THEN Await("pba_rest",
               Req("GET", "submit", PbaRestUrl,
                   [ dominio |-> d, recaptcha |-> captchaResult.data,
                     cookies |-> c.jar, csrf |-> c.csrfToken ]),
               c)
    ELSE Await("pba_captcha",
               Req("solver", "challenge", PbaPageUrl, [siteKey |-> PbaSiteKey]),
               [jar |-> c.jar, csrfToken |-> c.csrfToken, asked |-> TRUE])

fetchPBA_solved(d, c, captchaResult) ==
    Await("pba_rest",
          Req("GET", "submit", PbaRestUrl,
              [ dominio |-> d, recaptcha |-> captchaResult.data,
                cookies |-> c.jar, csrf |-> c.csrfToken ]),
          c)

fetchPBA_res(d, c, data) ==
    IF data.error THEN Threw(MsgPbaError)
    ELSE MapList(OrV(data.infracciones, Arr(<<>>)), PbaItemRecord)

PBA_call == /\ Calling(Backend, "fetchPBA")
            /\ Advance(fetchPBA_begin(dominio), <<>>)
PBA_home == /\ At(Backend, "pba_home")
            /\ \E home \in PbaHomes : Advance(fetchPBA_home(dominio, ctx, home), << home >>)
PBA_solved == /\ At(Backend, "pba_captcha")
              /\ \E r \in CaptchaResults : Advance(fetchPBA_solved(dominio, ctx, r), << r >>)
PBA_res == /\ At(Backend, "pba_rest")
           /\ \E data \in PbaDatas : Advance(fetchPBA_res(dominio, ctx, data), << data >>)

\* ------------------------------------------------------- CABA (backend-server.js)

MsgCabaVacia == "CABA devolvio una respuesta vacia (captcha invalido)."

CabaPageUrl == "https://buenosaires.gob.ar/licenciasdeconducir/consulta-de-infracciones/?actas=transito"
CabaEndpoint == "https://buenosaires.gob.ar/licenciasdeconducir/consulta-de-infracciones/index.php"
CabaSiteKey == "6LfcRGAlAAAAAJI0S2ABpxX_Wj56oioSE6y393OG"

\* A .card-access element: the trimmed text of the first element each
\* selector list finds in it, and the rest of its text.
CardPaid ==
    [ acta |-> <<"A", "1">>, h6 |-> <<"A", "1">>, fecha |-> <<"0", "2">>, descripcion |-> <<"b">>,
      lugar |-> <<"g">>, importe |-> <<"$", "1", ".", "2", "3", "4", ",", "5", "6">>, rest |-> <<"P", "A", "G", "A", "D", "A">> ]
CardBare ==
    [ acta |-> <<>>, h6 |-> <<>>, fecha |-> <<>>, descripcion |-> <<>>,
      lugar |-> <<>>, importe |-> <<>>, rest |-> <<>> ]
CardLists == { <<>>, << CardPaid >>, << CardBare, CardPaid >> }

\* The answer: whether it is empty, whether an h6 holds the no-records
\* phrase, and its cards.
CabaBodies ==
    [ empty : {TRUE}, noRegistras : {FALSE}, cards : {<<>>} ]
      \cup [ empty : {FALSE}, noRegistras : BOOLEAN, cards : CardLists ]

\* $card.text()
CardText(card) ==
    card.h6 \o card.fecha \o card.descripcion \o card.lugar \o card.importe \o card.rest

CabaCardRecord(card) ==
    [ acta |-> OrNull(Or(card.acta, card.h6)),
      fecha |-> OrNull(card.fecha),
      descripcion |-> OrNull(card.descripcion),
      lugar |-> OrNull(card.lugar),
      importe |-> ImporteComma(card.importe),
      estado |-> EstadoOf(CardText(card)),
      jurisdiccion |-> <<"C", "A", "B", "A">> ]

\* home.headers['set-cookie'].map(c => c.split(';')[0]).join('; ')
HeaderCookies(setCookie) == setCookie

fetchCABA_begin(d) ==
    Await("caba_home", Req("GET", "session", CabaPageUrl, [cookies |-> <<>>]), NoCtx)

fetchCABA_home(d, c, home) ==
    Await("caba_captcha",
          Req("solver", "challenge", CabaPageUrl, [siteKey |-> CabaSiteKey]),
          [cookies |-> HeaderCookies(home.setCookie)])

fetchCABA_solved(d, c, captchaResult) ==
    Await("caba_post",
          Req("POST", "submit", CabaEndpoint,
              [dominio |-> d, recaptcha |-> captchaResult.data, cookies |-> c.cookies]),
          c)

fetchCABA_res(d, c, body) ==
    IF body.empty THEN Threw(MsgCabaVacia)
    ELSE IF body.noRegistras THEN Returned(<<>>)
    ELSE Returned(MapSeq(body.cards, CabaCardRecord))

CABA_call == /\ Calling(Backend, "fetchCABA")
             /\ Advance(fetchCABA_begin(dominio), <<>>)
CABA_home == /\ At(Backend, "caba_home")
             /\ \E home \in [setCookie : CookieHeaders] :
                  Advance(fetchCABA_home(dominio, ctx, home), << home >>)
CABA_solved == /\ At(Backend, "caba_captcha")
               /\ \E r \in CaptchaResults : Advance(fetchCABA_solved(dominio, ctx, r), << r >>)
CABA_res == /\ At(Backend, "caba_post")
            /\ \E body \in CabaBodies : Advance(fetchCABA_res(dominio, ctx, body), << body >>)

\* -------------------------------------------------------------- Santa Fe

SantaFeUrl == "https://www.santafe.gov.ar/juzgadovirtual/consultaInfraccion.do"

\* Minimum number of cells of a row, in the adapters that skip row 0.
MinCols == 2

\* A variant that reads the first matched row like the others.
SkipFirstKeep_everyRow(i, cols) == Len(cols) >= MinCols

\* if (i === 0) return; if (cols.length < 2) return;
SkipFirstKeep(i, cols) == i # 0 /\ Len(cols) >= MinCols

SantaFeRowRecord(cols) ==
    [ acta |-> OrNull(Col(cols, 0)),
      fecha |-> OrNull(Col(cols, 1)),
      descripcion |-> OrNull(Col(cols, 2)),
      lugar |-> OrNull(Col(cols, 3)),
      importe |-> ImporteDot(Col(cols, 4)),
      estado |-> PENDIENTE,
      jurisdiccion |-> <<"S", "a", "n", "t", "a", " ", "F", "e">> ]

fetchSantaFe_begin(d) ==
    Await("santafe_get",
          Req("GET", "submit", SantaFeUrl, [dominio |-> d, cookies |-> <<>>]), NoCtx)

fetchSantaFe_res(d, c, body) ==
    Returned(EachRow(body.rows, SkipFirstKeep, SantaFeRowRecord))

\* The same function in both programs.
SantaFe_call == /\ pc = "call"
                /\ invoked[Len(invoked)].adapter = "fetchSantaFe"
                /\ Advance(fetchSantaFe_begin(dominio), <<>>)
SantaFe_res == /\ pc = "santafe_get"
               /\ \E body \in [rows : RowSeqs] : Advance(fetchSantaFe_res(dominio, ctx, body), << body >>)

\* --------------------------------------------------------------- Posadas

PosadasUrl == "https://sistema.posadas.gov.ar/mp_sistemas/autogestion/verificarmultadominio"

\* The answer: the phrases of its body text that the code looks for,
\* whether the text outside the table cells holds "pag", and the rows.
PosadasBodies ==
    [ phrases : { {}, {"no registra"} }, pagOutside : BOOLEAN, rows : RowSeqs ]

\* bodyText.toLowerCase().includes('pag'): the cells are part of the text
BodyHasPag(body) ==
    \/ body.pagOutside
    \/ \E r \in 1..Len(body.rows) : \E k \in 1..Len(body.rows[r]) :
         EstadoOf(body.rows[r][k]) = PAGADA

PosadasRowRecord(cols, hasPag) ==
    [ acta |-> OrNull(Col(cols, 0)),
      fecha |-> OrNull(Col(cols, 1)),
      descripcion |-> OrNull(Col(cols, 2)),
      lugar |-> OrNull(Col(cols, 3)),
      importe |-> ImporteDot(Col(cols, 4)),
      estado |-> IF hasPag THEN PAGADA ELSE PENDIENTE,
      jurisdiccion |-> <<"M", "u", "n", "i", "c", "i", "p", "i", "o", " ", "d", "e", " ", "P", "o", "s", "a", "d", "a", "s">> ]

fetchPosadas_begin(d) ==
    Await("posadas_post",
          Req("POST", "submit", PosadasUrl, [tf_dominio |-> d, cookies |-> <<>>]), NoCtx)

fetchPosadas_res(d, c, body) ==
    IF "no registra" \in body.phrases THEN Returned(<<>>)
    ELSE Returned(EachRow(body.rows, SkipFirstKeep,
                          LAMBDA cols : PosadasRowRecord(cols, BodyHasPag(body))))

Posadas_call == /\ Calling(Backend, "fetchPosadas")
                /\ Advance(fetchPosadas_begin(dominio), <<>>)
Posadas_res == /\ At(Backend, "posadas_post")
               /\ \E body \in PosadasBodies : Advance(fetchPosadas_res(dominio, ctx, body), << body >>)

\* ------------------------------------------------------------ Corrientes

CorrientesUrl == "https://corrientes.sigein.net/"

CorrientesHomes ==
    [ viewState : {"", "t1"}, viewStateGenerator : {"t2"},
      eventValidation : {"", "t2"}, setCookie : { <<>>, << <<"sid", "c1">> >> } ]

CorrientesPhrases == { "no posee infracciones", "sin infracciones", "no registra" }

CorrientesBodies ==
    [ phrases : { {}, {"no registra"}, {"sin infracciones"} }, rows : RowSeqs ]

CorrientesRowRecord(cols) ==
    [ acta |-> OrNull(Col(cols, 0)),
      fecha |-> OrNull(Col(cols, 1)),
      descripcion |-> OrNull(Col(cols, 2)),
      lugar |-> OrNull(Col(cols, 3)),
      importe |-> ImporteDot(Col(cols, 4)),
      estado |-> EstadoOf(Col(cols, 5)),
      jurisdiccion |-> <<"C", "o", "r", "r", "i", "e", "n", "t", "e", "s">> ]

fetchCorrientes_begin(d) ==
    Await("corrientes_home",
          Req("GET", "session", CorrientesUrl, [cookies |-> <<>>]), [jar |-> <<>>])

fetchCorrientes_home(d, c, home) ==
    LET jar == JarStore(c.jar, home.setCookie)
    IN  Await("corrientes_post",
              Req("POST", "submit", CorrientesUrl,
                  [ VIEWSTATE |-> home.viewState,
                    VIEWSTATEGENERATOR |-> home.viewStateGenerator,
                    EVENTVALIDATION |-> home.eventValidation,
                    tbPatente |-> d,
                    cookies |-> jar ]),
              [jar |-> jar])

fetchCorrientes_res(d, c, body) ==
    IF body.phrases \cap CorrientesPhrases # {} THEN Returned(<<>>)
    ELSE Returned(EachRow(body.rows, SkipFirstKeep, CorrientesRowRecord))

Corrientes_call == /\ Calling(Backend, "fetchCorrientes")
                   /\ Advance(fetchCorrientes_begin(dominio), <<>>)
Corrientes_home == /\ At(Backend, "corrientes_home")
                   /\ \E home \in CorrientesHomes :
                        Advance(fetchCorrientes_home(dominio, ctx, home), << home >>)
Corrientes_res == /\ At(Backend, "corrientes_post")
                  /\ \E body \in CorrientesBodies :
                       Advance(fetchCorrientes_res(dominio, ctx, body), << body >>)

\* ------------------------------------------------- Entre Rios and Misiones

MsgEntreRiosDominio == "Entre Rios: dominio no encontrado."
MsgMisionesDominio == "Misiones: dominio no encontrado."
MsgNullData == "Cannot read properties of null (reading 'infracciones')"

EntreRiosValidUrl == "https://api.monitoreovialentrerios.ar/api/v1/dominio"
EntreRiosListUrl == "https://api.monitoreovialentrerios.ar/api/entre_rios/infracciones_v1"
MisionesValidUrl == "https://api.monitoreovialmisiones.info/api/dominio"
MisionesListUrl == "https://api.monitoreovialmisiones.info/api/infracciones"

\* The validation answer: whether its data holds a truthy error, and the
\* cookies it sets.
ValidAnswers == [ error : BOOLEAN, setCookie : { <<>>, << <<"sid", "c1">> >> } ]

\* The list answer: null, an array, or an object with the fields the code
\* looks a list up in (datos.infracciones is read by Misiones only).
ListDatas ==
    { [kind |-> "null"] }
      \cup { Arr(l) : l \in { <<>>, << ItemPaid >> } }
      \cup [ kind : {"object"},
             datosInfracciones : { Undef, Arr(<< ItemOther >>) },
             infracciones : { Undef, Arr(<< ItemPaid >>), Arr(<< ItemPaid, NullItem >>) },
             data : { Undef, Obj },
             items : { Undef } ]

MonitoreoItemRecord(i, label) ==
    [ acta |-> OrNull(Or(Or(Get(i, "nroActa"), Get(i, "acta")), Get(i, "numero"))),
      fecha |-> OrNull(Or(Get(i, "fecha"), Get(i, "fechaInfraccion"))),
      descripcion |-> OrNull(Or(Or(Get(i, "descripcion"), Get(i, "motivo")), Get(i, "articulo"))),
      lugar |-> OrNull(Or(Get(i, "lugar"), Get(i, "direccion"))),
      importe |-> NumOrNull(parseFloat(Or(Or(Or(Get(i, "importe"), Get(i, "monto")), Get(i, "deuda")), <<"0">>))),
      estado |-> EstadoOf(Or(Get(i, "estado"), PENDIENTE)),
      jurisdiccion |-> Or(Get(i, "jurisdiccion"), label) ]

\* if (!Array.isArray(list)) return []; return list.map(Make)
MapIfArray(list, Make(_)) ==
    IF list.kind # "array" THEN Returned(<<>>)
    ELSE IF HasNullItem(list.items) THEN Threw(MsgNullItem)
    ELSE Returned(MapSeq(list.items, Make))

fetchEntreRios_begin(d) ==
    Await("entrerios_valid",
          Req("POST", "validate", EntreRiosValidUrl, [dominio |-> d, cookies |-> <<>>]),
          NoCtx)

\* A variant that does not look at the validation answer.
fetchEntreRios_valid_unchecked(d, c, valid) ==
    Await("entrerios_list",
          Req("POST", "submit", EntreRiosListUrl, [id |-> d, cookies |-> <<>>]),
          c)

fetchEntreRios_valid(d, c, valid) ==
    IF valid.error THEN Threw(MsgEntreRiosDominio)
    ELSE Await("entrerios_list",
               Req("POST", "submit", EntreRiosListUrl, [id |-> d, cookies |-> <<>>]),
               c)

\* data.infracciones || data.data || data.items || data || []
fetchEntreRios_res(d, c, data) ==
    IF data.kind = "null" THEN Threw(MsgNullData)
    ELSE IF data.kind = "array"
    THEN MapIfArray(data, LAMBDA i : MonitoreoItemRecord(i, <<"E", "n", "t", "r", "e", " ", "R", "i", "o", "s">>))
    ELSE MapIfArray(OrV(OrV(OrV(data.infracciones, data.data), data.items), Obj),
                    LAMBDA i : MonitoreoItemRecord(i, <<"E", "n", "t", "r", "e", " ", "R", "i", "o", "s">>))

fetchMisiones_begin(d) ==
    Await("misiones_valid",
          Req("POST", "validate", MisionesValidUrl, [dominio |-> d, cookies |-> <<>>]),
          NoCtx)

fetchMisiones_valid(d, c, valid) ==
    IF valid.error THEN Threw(MsgMisionesDominio)
    ELSE Await("misiones_list",
               Req("POST", "submit", MisionesListUrl, [id |-> d, cookies |-> <<>>]),
               c)

\* (data && data.datos && data.datos.infracciones) || data.infracciones
\*   || data.data || data.items || []
fetchMisiones_res(d, c, data) ==
    IF data.kind = "null" THEN Threw(MsgNullData)
    ELSE IF data.kind = "array"
    THEN MapIfArray(Arr(<<>>), LAMBDA i : MonitoreoItemRecord(i, <<"M", "i", "s", "i", "o", "n", "e", "s">>))
    ELSE MapIfArray(OrV(OrV(OrV(OrV(data.datosInfracciones, data.infracciones),
                                data.data), data.items), Arr(<<>>)),
                    LAMBDA i : MonitoreoItemRecord(i, <<"M", "i", "s", "i", "o", "n", "e", "s">>))

EntreRios_call == /\ Calling(Backend, "fetchEntreRios")
                  /\ Advance(fetchEntreRios_begin(dominio), <<>>)
EntreRios_valid == /\ At(Backend, "entrerios_valid")
                   /\ \E valid \in ValidAnswers :
                        Advance(fetchEntreRios_valid(dominio, ctx, valid), << valid >>)
EntreRios_res == /\ At(Backend, "entrerios_list")
                 /\ \E data \in ListDatas :
                      Advance(fetchEntreRios_res(dominio, ctx, data), << data >>)
Misiones_call == /\ Calling(Backend, "fetchMisiones")
                 /\ Advance(fetchMisiones_begin(dominio), <<>>)
Misiones_valid == /\ At(Backend, "misiones_valid")
                  /\ \E valid \in ValidAnswers :
                       Advance(fetchMisiones_valid(dominio, ctx, valid), << valid >>)
Misiones_res == /\ At(Backend, "misiones_list")
                /\ \E data \in ListDatas :
                     Advance(fetchMisiones_res(dominio, ctx, data), << data >>)

\* ------------------------------------------------------------------ Chaco

ChacoUrl == "https://policiacaminera.chaco.gov.ar/api/v1/traffic_fines/"
MsgForEach == "forEach is not a function"

ItemFoto ==
    [ id |-> <<"A", "3">>, fechaGeneracion |-> <<"0", "3">>, tipo |-> <<"b">>,
      importe_1vto |-> <<"3", "0">>, estado |-> <<"p", "a", "g", "a", "d", "o">> ]
ItemCaminera == [ nroActa |-> <<"A", "4">>, importe_1vto |-> <<>> ]

\* res.data || {}: the two lists of the answer.
ChacoDatas ==
    [ fotomultas : { Undef, Arr(<< ItemFoto >>), Obj },
      caminera : { Undef, Arr(<< ItemCaminera, ItemFoto >>), Arr(<< NullItem >>) } ]

ChacoFotoRecord(i) ==
    [ acta |-> OrNull(Or(Get(i, "nroActa"), Get(i, "id"))),
      fecha |-> OrNull(Or(Get(i, "fechaInfraccion"), Get(i, "fechaGeneracion"))),
      descripcion |-> OrNull(Or(Or(Get(i, "descripcionLey"), Get(i, "articulo")), Get(i, "tipo"))),
      lugar |-> OrNull(Or(Get(i, "lugar"), Get(i, "juzgado"))),
      importe |-> NumOrNull(parseFloat(Or(Or(Get(i, "importe"), Get(i, "importe_1vto")), <<"0">>))),
      estado |-> EstadoOf(Or(Get(i, "estado"), PENDIENTE)),
      jurisdiccion |-> <<"C", "h", "a", "c", "o", " ", "(", "F", "o", "t", "o", "m", "u", "l", "t", "a", ")">> ]

ChacoCamineraRecord(i) ==
    [ acta |-> OrNull(Get(i, "nroActa")),
      fecha |-> OrNull(Get(i, "fecha_1vto")),
      descripcion |-> OrNull(Get(i, "tipo")),
      lugar |-> Null,
      importe |-> NumOrNull(parseFloat(Or(Get(i, "importe_1vto"), <<"0">>))),
      estado |-> EstadoOf(Or(Get(i, "estado"), PENDIENTE)),
      jurisdiccion |-> <<"C", "h", "a", "c", "o", " ", "(", "C", "a", "m", "i", "n", "e", "r", "a", ")">> ]

fetchChaco_begin(d) ==
    Await("chaco_get",
          Req("GET", "submit", ChacoUrl, [dominio |-> d, cookies |-> <<>>]), NoCtx)

\* The two forEach loops, neither inside a try.
fetchChaco_res(d, c, data) ==
    LET fotomultas == OrV(data.fotomultas, Arr(<<>>))
        caminera == OrV(data.caminera, Arr(<<>>))
    IN  IF fotomultas.kind # "array" \/ caminera.kind # "array" THEN Threw(MsgForEach)
        ELSE IF HasNullItem(fotomultas.items) \/ HasNullItem(caminera.items)
        THEN Threw(MsgNullItem)
        ELSE Returned(MapSeq(fotomultas.items, ChacoFotoRecord)
                        \o MapSeq(caminera.items, ChacoCamineraRecord))

Chaco_call == /\ Calling(Backend, "fetchChaco")
              /\ Advance(fetchChaco_begin(dominio), <<>>)
Chaco_res == /\ At(Backend, "chaco_get")
             /\ \E data \in ChacoDatas : Advance(fetchChaco_res(dominio, ctx, data), << data >>)

\* ---------------------------------------------------------------- Rosario

MsgRosarioSesion == "No se pudo obtener la sesion del portal de Rosario."
MsgRosarioError == "Rosario devolvio error: captcha invalido"

RosarioFormUrl == "https://www.rosario.gob.ar/gdm/patente.do"
RosarioSiteKey == "6LcUUMUUAAAAAHd5V8Y7RYJ4L91xP9uhD8uAspSL"

\* The Set-Cookie headers of the form page.
RosarioHomes ==
    [ setCookie :
        { <<>>,
          << <<"aux", "c3">> >>,
          << <<"JSESSIONID", "s1">> >>,
          << <<"aux", "c3">>, <<"JSESSIONID", "s1">>, <<"JSESSIONID", "s2">> >>,
          << <<"JSESSIONID", "">>, <<"JSESSIONID", "s2">> >> } ]

\* A variant that takes the last header with a JSESSIONID.
FirstJSessionId_last(headers) ==
    LET ks == { k \in 1..Len(headers) :
                  headers[k][1] = "JSESSIONID" /\ headers[k][2] # "" }
    IN  IF ks = {} THEN ""
        ELSE headers[CHOOSE k \in ks : \A j \in ks : j <= k][2]

RECURSIVE FirstJSessionId(_)
\* for (c of headers) { m = c.match(/JSESSIONID=([^;]+)/i); if (m) break }:
\* the value of the first header with a non-empty JSESSIONID, "" if none.
FirstJSessionId(headers) ==
    IF headers = <<>> THEN ""
    ELSE IF Head(headers)[1] = "JSESSIONID" /\ Head(headers)[2] # ""
    THEN Head(headers)[2]
    ELSE FirstJSessionId(Tail(headers))

RosarioPhrases == { "no registra", "sin infracciones", "no pose" }

\* The answer: whether it holds a .govuk-error-summary, the phrases of its
\* body text, its rows.
RosarioBodies ==
    [ errorSummary : BOOLEAN, phrases : { {}, {"no registra"} }, rows : RowSeqs ]

RosarioRowRecord(cols) ==
    [ acta |-> OrNull(Col(cols, 0)),
      fecha |-> OrNull(Col(cols, 1)),
      descripcion |-> OrNull(Col(cols, 2)),
      lugar |-> OrNull(Col(cols, 3)),
      importe |-> ImporteComma(Col(cols, 4)),
      estado |-> EstadoOf(Col(cols, 5)),
      jurisdiccion |-> <<"R", "o", "s", "a", "r", "i", "o">> ]

fetchRosario_begin(d) ==
    Await("rosario_home",
          Req("GET", "session", RosarioFormUrl, [cookies |-> <<>>]), [jar |-> <<>>])

\* A variant that posts the form without asking the solver.
fetchRosario_home_noChallenge(d, c, home) ==
    LET jsessionid == FirstJSessionId(home.setCookie)
    IN  IF jsessionid = "" THEN Threw(MsgRosarioSesion)
        ELSE Await("rosario_post",
                   Req("POST", "submit", RosarioFormUrl,
                       [ urlSession |-> jsessionid, patente |-> d,
                         recaptcha |-> "",
                         cookies |-> JarPut(JarStore(c.jar, home.setCookie),
                                            <<"JSESSIONID", jsessionid>>) ]),
                   [jar |-> JarStore(c.jar, home.setCookie), jsessionid |-> jsessionid])

fetchRosario_home(d, c, home) ==
    LET jsessionid == FirstJSessionId(home.setCookie)
    IN  IF jsessionid = "" THEN Threw(MsgRosarioSesion)
        ELSE Await("rosario_captcha",
                   Req("solver", "challenge", RosarioFormUrl, [siteKey |-> RosarioSiteKey]),
                   [jar |-> JarStore(c.jar, home.setCookie), jsessionid |-> jsessionid])

\* From the solution to the POST: the request is given the jar and a
\* Cookie header built from the session id.  The wrapper of
\* axios-cookiejar-support sends the cookies of the jar with the header's
\* cookie set over the key it names.
fetchRosario_solved(d, c, captchaResult) ==
    Await("rosario_post",
          Req("POST", "submit", RosarioFormUrl,
              [ urlSession |-> c.jsessionid, patente |-> d,
                recaptcha |-> captchaResult.data,
                cookies |-> JarPut(c.jar, <<"JSESSIONID", c.jsessionid>>) ]),
          c)

\* The error summary first, then the table, then the no-records phrases.
fetchRosario_res(d, c, body) ==
    IF body.errorSummary THEN Threw(MsgRosarioError)
    ELSE LET infracciones == EachRow(body.rows, SkipFirstKeep, RosarioRowRecord)
         IN  IF body.phrases \cap RosarioPhrases # {} /\ infracciones = <<>>
             THEN Returned(<<>>)
             ELSE Returned(infracciones)

Rosario_call == /\ Calling(Backend, "fetchRosario")
                /\ Advance(fetchRosario_begin(dominio), <<>>)
Rosario_home == /\ At(Backend, "rosario_home")
                /\ \E home \in RosarioHomes :
                     Advance(fetchRosario_home(dominio, ctx, home), << home >>)
Rosario_solved == /\ At(Backend, "rosario_captcha")
                  /\ \E r \in CaptchaResults :
                       Advance(fetchRosario_solved(dominio, ctx, r), << r >>)
Rosario_res == /\ At(Backend, "rosario_post")
               /\ \E body \in RosarioBodies :
                    Advance(fetchRosario_res(dominio, ctx, body), << body >>)

\* ---------------------------------------------------------------- Neuquen

MsgNeuquenMantenimiento == "El portal de Neuquen esta en mantenimiento. Intente mas tarde."
MsgNeuquenFormato == "Formato de dominio incorrecto para Neuquen."
MsgNeuquenNoDisponible == "Portal Neuquen no disponible (HTTP status)."
MsgNeuquenSinInfracciones == "No se encontraron infracciones"

NeuquenUrl == "https://webservice.muninqn.gov.ar/foto-multa/api/infraccion_patente_p"

\* The answer, whatever its status (validateStatus accepts all): the data
\* and error fields of its body; error "" stands for one that is no string.
NeuquenAnswers ==
    [ status : {200, 404, 422, 503},
      error : { "", MsgNeuquenSinInfracciones, "Error interno" },
      data : { Undef, Obj, Arr(<<>>), Arr(<< ItemPaid, ItemOther >>),
               Arr(<< ItemPaid, NullItem >>) } ]

NeuquenItemRecord(i) ==
    [ acta |-> OrNull(Or(Or(Get(i, "nro_acta"), Get(i, "acta")), Get(i, "id"))),
      fecha |-> OrNull(Or(Get(i, "fecha"), Get(i, "fecha_infraccion"))),
      descripcion |-> OrNull(Or(Or(Get(i, "descripcion"), Get(i, "motivo")), Get(i, "tipo"))),
      lugar |-> OrNull(Or(Get(i, "lugar"), Get(i, "direccion"))),
      importe |-> NumOrNull(parseFloat(Or(Or(Get(i, "importe"), Get(i, "monto")), <<"0">>))),
      estado |-> EstadoOf(Or(Get(i, "estado"), PENDIENTE)),
      jurisdiccion |-> <<"N", "e", "u", "q", "u", "e", "n", " ", "C", "a", "p", "i", "t", "a", "l">> ]

fetchNeuquen_begin(d) ==
    Await("neuquen_post",
          Req("POST", "submit", NeuquenUrl, [valor |-> d, cookies |-> <<>>]), NoCtx)

\* A variant that looks for the no-records answer before the status 503.
fetchNeuquen_res_sentinelFirst(d, c, res) ==
    IF res.status = 404 \/ res.error = MsgNeuquenSinInfracciones THEN Returned(<<>>)
    ELSE IF res.status = 503 THEN Threw(MsgNeuquenMantenimiento)
    ELSE IF res.status = 422 THEN Threw(MsgNeuquenFormato)
    ELSE IF res.data.kind # "array"
    THEN Threw(IF res.error # "" THEN res.error ELSE MsgNeuquenNoDisponible)
    ELSE IF HasNullItem(res.data.items) THEN Threw(MsgNullItem)
    ELSE Returned(MapSeq(res.data.items, NeuquenItemRecord))

fetchNeuquen_res(d, c, res) ==
    IF res.status = 503 THEN Threw(MsgNeuquenMantenimiento)
    ELSE IF res.status = 404 \/ res.error = MsgNeuquenSinInfracciones THEN Returned(<<>>)
    ELSE IF res.status = 422 THEN Threw(MsgNeuquenFormato)
    ELSE IF res.data.kind # "array"
    THEN Threw(IF res.error # "" THEN res.error ELSE MsgNeuquenNoDisponible)
    ELSE IF HasNullItem(res.data.items) THEN Threw(MsgNullItem)
    ELSE Returned(MapSeq(res.data.items, NeuquenItemRecord))

Neuquen_call == /\ Calling(Backend, "fetchNeuquen")
                /\ Advance(fetchNeuquen_begin(dominio), <<>>)
Neuquen_res == /\ At(Backend, "neuquen_post")
               /\ \E res \in NeuquenAnswers :
                    Advance(fetchNeuquen_res(dominio, ctx, res), << res >>)

\* ------------------------------------------------------------- Santa Rosa

MsgSantaRosaCsrf == "No se encontro el CSRF token en el portal de Santa Rosa."
MsgSantaRosaError == "Santa Rosa: El dominio ingresado no es valido"

SantaRosaUrl == "https://fotomultas.santarosa.gob.ar/"

\* The form page: the value of input[name=csrf_token] ("" when absent).
SantaRosaHomes == [ csrf : TokenValues, setCookie : { <<>>, << <<"tr_session", "c1">> >> } ]

\* The answer: whether its body text holds the no-records phrase, whether
\* the first .red li holds text, its table body rows.
SantaRosaBodies == [ noSeEncontraron : BOOLEAN, errText : BOOLEAN, rows : RowSeqs ]

\* if (cols.length < 2) return;  (row 0 is not skipped)
MinColsKeep(i, cols) == Len(cols) >= MinCols

SantaRosaRowRecord(cols) ==
    [ acta |-> OrNull(Col(cols, 0)),
      fecha |-> OrNull(Col(cols, 1)),
      descripcion |-> OrNull(Col(cols, 2)),
      lugar |-> OrNull(Col(cols, 3)),
      importe |-> ImporteComma(Col(cols, 4)),
      estado |-> EstadoOf(Or(Col(cols, 5), Col(cols, 3))),
      jurisdiccion |-> <<"S", "a", "n", "t", "a", " ", "R", "o", "s", "a", " ", "(", "L", "a", " ", "P", "a", "m", "p", "a", ")">> ]

fetchSantaRosa_begin(d) ==
    Await("santarosa_home",
          Req("GET", "session", SantaRosaUrl, [cookies |-> <<>>]), [jar |-> <<>>])

fetchSantaRosa_home(d, c, home) ==
    LET jar == JarStore(c.jar, home.setCookie)
    IN  IF home.csrf = "" THEN Threw(MsgSantaRosaCsrf)
        ELSE Await("santarosa_post",
                   Req("POST", "submit", SantaRosaUrl,
                       [csrf_token |-> home.csrf, dominio |-> d, cookies |-> jar]),
                   [jar |-> jar])

fetchSantaRosa_res(d, c, body) ==
    IF body.noSeEncontraron THEN Returned(<<>>)
    ELSE IF body.errText THEN Threw(MsgSantaRosaError)
    ELSE Returned(EachRow(body.rows, MinColsKeep, SantaRosaRowRecord))

SantaRosa_call == /\ Calling(Backend, "fetchSantaRosa")
                  /\ Advance(fetchSantaRosa_begin(dominio), <<>>)
SantaRosa_home == /\ At(Backend, "santarosa_home")
                  /\ \E home \in SantaRosaHomes :
                       Advance(fetchSantaRosa_home(dominio, ctx, home), << home >>)
SantaRosa_res == /\ At(Backend, "santarosa_post")
                 /\ \E body \in SantaRosaBodies :
                      Advance(fetchSantaRosa_res(dominio, ctx, body), << body >>)

\* ------------------------------------------------------ Ciudad de Mendoza

MsgMendozaSesion == "No se pudo iniciar sesion en el portal de Mendoza."
MsgMendozaError == "Error en el portal de Mendoza."

MendozaPageUrl == "https://apex.ciudaddemendoza.gov.ar/apex/produccion/f?p=204:4000"
MendozaAcceptUrl == "https://apex.ciudaddemendoza.gov.ar/apex/produccion/wwv_flow.accept"

\* A page of the APEX application: its hidden fields ("" when absent) and
\* the cookies it sets.
MendozaPages ==
    { [ p_instance |-> "i1", p_page_submission_id |-> "t1", pSalt |-> "t1",
        pPageItemsProtected |-> "t1", setCookie |-> << <<"sid", "c1">> >> ],
      [ p_instance |-> "i2", p_page_submission_id |-> "t2", pSalt |-> "t2",
        pPageItemsProtected |-> "t2", setCookie |-> << <<"sid", "c2">>, <<"aux", "c3">> >> ],
      [ p_instance |-> "i1", p_page_submission_id |-> "", pSalt |-> "t1",
        pPageItemsProtected |-> "", setCookie |-> <<>> ],
      [ p_instance |-> "", p_page_submission_id |-> "", pSalt |-> "",
        pPageItemsProtected |-> "", setCookie |-> <<>> ] }

\* Rows of the report: fifteen cells, fifteen with no date, two.
RowMendoza ==
    << <<>>, <<"0", "1">>, <<"2", "4">>, <<"3">>, <<"b">>, <<"1">>, <<"a">>, <<"$", "1", "0", "0", ",", "5", "0">>, <<"1", ".", "2", "0", "0", ",", "7", "5">>,
       <<"A", "9">>, <<"A", "B">>, <<"g">>, <<>>, <<>>, <<"P", "A", "G", "A", "D", "O">> >>
RowMendozaSinFecha ==
    << <<>>, <<>>, <<"2", "4">>, <<"3">>, <<"b">>, <<"1">>, <<"a">>, <<"1", "0">>, <<>>,
       <<>>, <<"A", "B">>, <<>>, <<>>, <<>>, <<"b">> >>
MendozaRowSeqs == SeqsUpTo({ RowMendoza, RowMendozaSinFecha, RowTwoCells }, MaxRows)

\* The answer: the no-data signal, whether the final URL holds a
\* success_msg, the rows of the report.
MendozaBodies == [ nodatafound : BOOLEAN, successMsg : BOOLEAN, rows : MendozaRowSeqs ]

\* Minimum number of cells of a row of the Mendoza report.
MendozaMinCols == 10

\* s.slice(a, b)
Slice(s, a, b) == SubSeq(s, a + 1, IF b < Len(s) THEN b ELSE Len(s))

\* The values written into session state, in the order of the item names.
MendozaItemValues(d) ==
    IF IsMercosur(d) THEN << Slice(d, 0, 2), Slice(d, 2, 5), Slice(d, 5, 7) >>
    ELSE << Slice(d, 0, 3), Slice(d, 3, 6) >>

MendozaItemNames(d) ==
    IF IsMercosur(d)
    THEN << "P4000_MZA_PRIMER_LETRA", "P4000_MZA_NUM_INTER", "P4000_MZA_ULT_LETRA" >>
    ELSE << "P4000_MZA_LETRAS", "P4000_MZA_NUMEROS" >>

\* A variant that fills the fields of the 6-character layout for every
\* identifier.
MendozaPlateFields_oldLayout(d) ==
    [ P4000_MZA_LETRAS |-> Slice(d, 0, 3), P4000_MZA_NUMEROS |-> Slice(d, 3, 6),
      P4000_MZA_PRIMER_LETRA |-> <<>>, P4000_MZA_NUM_INTER |-> <<>>,
      P4000_MZA_ULT_LETRA |-> <<>> ]

\* The plate fields of the form, by the layout of the identifier.
MendozaPlateFields(d) ==
    IF IsMercosur(d)
    THEN [ P4000_MZA_LETRAS |-> <<>>, P4000_MZA_NUMEROS |-> <<>>,
           P4000_MZA_PRIMER_LETRA |-> Slice(d, 0, 2),
           P4000_MZA_NUM_INTER |-> Slice(d, 2, 5),
           P4000_MZA_ULT_LETRA |-> Slice(d, 5, 7) ]
    ELSE [ P4000_MZA_LETRAS |-> Slice(d, 0, 3), P4000_MZA_NUMEROS |-> Slice(d, 3, 6),
           P4000_MZA_PRIMER_LETRA |-> <<>>, P4000_MZA_NUM_INTER |-> <<>>,
           P4000_MZA_ULT_LETRA |-> <<>> ]

MendozaKeep(i, cols) == Len(cols) >= MendozaMinCols /\ Col(cols, 1) # <<>>

MendozaRowRecord(cols) ==
    [ acta |-> OrNull(Or(Col(cols, 9), Col(cols, 3))),
      fecha |-> OrNull(Col(cols, 1)),
      descripcion |-> OrNull(Col(cols, 11)),
      lugar |-> Null,
      importe |-> ImporteComma(Or(Col(cols, 8), Col(cols, 7))),
      estado |-> EstadoOf(Col(cols, 14)),
      jurisdiccion |-> <<"C", "i", "u", "d", "a", "d", " ", "d", "e", " ", "M", "e", "n", "d", "o", "z", "a">> ]

fetchMendoza_begin(d) ==
    Await("mendoza_home",
          Req("GET", "session", MendozaPageUrl, [cookies |-> <<>>]), [jar |-> <<>>])

\* Step 1 to step 2: the session id, then the GET that writes the plate
\* items into session state.
fetchMendoza_home(d, c, home) ==
    LET jar == JarStore(c.jar, home.setCookie)
    IN  IF home.p_instance = "" THEN Threw(MsgMendozaSesion)
        ELSE Await("mendoza_set",
                   Req("GET", "state", MendozaPageUrl,
                       [ session |-> home.p_instance,
                         itemNames |-> MendozaItemNames(d),
                         itemValues |-> MendozaItemValues(d),
                         cookies |-> jar ]),
                   [jar |-> jar, home |-> home])

\* A variant that reads the submission tokens and the cookies of the first
\* page ($h and the jar before the second GET) instead of the second.
fetchMendoza_set_firstPage(d, c, setResp) ==
    Await("mendoza_post",
          Req("POST", "submit", MendozaAcceptUrl,
              [ p_instance |-> c.home.p_instance,
                p_page_submission_id |-> c.home.p_page_submission_id,
                pSalt |-> c.home.pSalt,
                pPageItemsProtected |-> c.home.pPageItemsProtected,
                plateFields |-> MendozaPlateFields(d),
                cookies |-> c.jar ]),
          c)

\* Step 2 to step 3: the tokens of the state-setting answer, then the POST.
fetchMendoza_set(d, c, setResp) ==
    LET jar == JarStore(c.jar, setResp.setCookie)
    IN  Await("mendoza_post",
              Req("POST", "submit", MendozaAcceptUrl,
                  [ p_instance |-> setResp.p_instance,
                    p_page_submission_id |-> setResp.p_page_submission_id,
                    pSalt |-> setResp.pSalt,
                    pPageItemsProtected |-> setResp.pPageItemsProtected,
                    plateFields |-> MendozaPlateFields(d),
                    cookies |-> jar ]),
              [jar |-> jar, home |-> c.home])

fetchMendoza_res(d, c, body) ==
    IF body.nodatafound THEN Returned(<<>>)
    ELSE IF body.successMsg THEN Threw(MsgMendozaError)
    ELSE Returned(EachRow(body.rows, MendozaKeep, MendozaRowRecord))

Mendoza_call == /\ Calling(Backend, "fetchMendoza")
                /\ Advance(fetchMendoza_begin(dominio), <<>>)
Mendoza_home == /\ At(Backend, "mendoza_home")
                /\ \E home \in MendozaPages :
                     Advance(fetchMendoza_home(dominio, ctx, home), << home >>)
Mendoza_set == /\ At(Backend, "mendoza_set")
               /\ \E setResp \in MendozaPages :
                    Advance(fetchMendoza_set(dominio, ctx, setResp), << setResp >>)
Mendoza_res == /\ At(Backend, "mendoza_post")
               /\ \E body \in MendozaBodies :
                    Advance(fetchMendoza_res(dominio, ctx, body), << body >>)

\* ------------------------------------------------------- Mendoza Caminera

MsgGXStateNotFound == "MendozaCaminera: GXState hidden field not found in page."
MsgGXTokensMissing == "MendozaCaminera: tokens missing from GXState."
MsgInvalidKey == "Invalid key length"
MsgNullResult == "Cannot read properties of null (reading 'gxMessages')"

CamineraUrl == "https://sistemas.seguridad.mendoza.gov.ar/webvialcaminera/servlet/com.pagosdeuda.wpdeudaonline"

\* AES block size in bytes.
BlockSize == 16

\* The zero byte used as padding.
Zero == "\\0"

\* A variant that pads as the cipher's own padding would: a full block
\* more when the plaintext already ends on a block boundary.
ZeroPad_extraBlock(bytes) ==
    LET n == Len(bytes)
        size == ((n \div BlockSize) + 1) * BlockSize
    IN  [k \in 1..size |-> IF k <= n THEN bytes[k] ELSE Zero]

\* Buffer.alloc(Math.ceil(n / 16) * 16, 0) with the plaintext copied in.
ZeroPad(bytes) ==
    LET n == Len(bytes)
        size == ((n + BlockSize - 1) \div BlockSize) * BlockSize
    IN  [k \in 1..size |-> IF k <= n THEN bytes[k] ELSE Zero]

\* The keys a page hands out: none, one of 32 hex characters, one that is
\* not (createCipheriv then throws).
ValidKeys == { "k1" }

\* AES-128-ECB without cipher padding: the ciphertext is the key applied to
\* each block of the padded plaintext, so it is as long as that.
gxEncrypt(plaintext, hexKey) == [key |-> hexKey, blocks |-> ZeroPad(plaintext)]

GxFullAjaxEvt == <<"g", "x", "f", "u", "l", "l", "a", "j", "a", "x", "E", "v", "t">>

\* The initial page: whether it holds a GXState field, and the state's
\* entries ("" when absent).
CamineraHomes ==
    { [ hasGXState |-> FALSE, GX_AJAX_KEY |-> "", AJAX_SECURITY_TOKEN |-> "",
        GX_AUTH_WPDEUDAONLINE |-> "", GX_WEBSOCKET_ID |-> "", setCookie |-> <<>> ],
      [ hasGXState |-> TRUE, GX_AJAX_KEY |-> "k1", AJAX_SECURITY_TOKEN |-> "",
        GX_AUTH_WPDEUDAONLINE |-> "j1", GX_WEBSOCKET_ID |-> "w1", setCookie |-> <<>> ],
      [ hasGXState |-> TRUE, GX_AJAX_KEY |-> "bad", AJAX_SECURITY_TOKEN |-> "t1",
        GX_AUTH_WPDEUDAONLINE |-> "j1", GX_WEBSOCKET_ID |-> "w1", setCookie |-> <<>> ],
      [ hasGXState |-> TRUE, GX_AJAX_KEY |-> "k1", AJAX_SECURITY_TOKEN |-> "t1",
        GX_AUTH_WPDEUDAONLINE |-> "j1", GX_WEBSOCKET_ID |-> "w1",
        setCookie |-> << <<"sid", "c1">> >> ],
      [ hasGXState |-> TRUE, GX_AJAX_KEY |-> "k1", AJAX_SECURITY_TOKEN |-> "t2",
        GX_AUTH_WPDEUDAONLINE |-> "j2", GX_WEBSOCKET_ID |-> "",
        setCookie |-> << <<"sid", "c2">>, <<"aux", "c3">> >> ] }

\* The answer to DOMINIO.CLICK: the code reads nothing of it.
ClickAnswers == [ setCookie : { <<>>, << <<"sid", "c9">> >> } ]

SdtItem ==
    [ obnId |-> <<"A", "5">>, concepto |-> <<"b">>, subConcepto |-> <<"g">>,
      vencimiento |-> <<"0", "5">>, importeTotal |-> <<"5", "0">>, tipo |-> <<"P", "A", "G", "O">> ]
SdtItemBare == [ concepto |-> <<>> ]
ObjetoItem ==
    [ tasa |-> <<"A", "6">>, ocvfechavto |-> <<"0", "6">>, cuotaDeudaTotal |-> <<>>,
      saldoCap |-> <<"6", "0", ".", "5">>, persona |-> <<"P">> ]
ObjetoItemBare == [ ObnId |-> <<"A", "7">> ]

\* A JSON string field: absent, text JSON.parse rejects, or a list.
NoText == [kind |-> "undefined"]
BadText == [kind |-> "invalid"]

\* One entry of gxValues.
CamineraContexts ==
    { [ CmpContext |-> "MAIN", AV9Titular |-> <<>>, sdt |-> Undef, AV14objetos |-> NoText ],
      [ CmpContext |-> "W0077", AV9Titular |-> <<"B">>, sdt |-> Arr(<< SdtItem, SdtItemBare >>),
        AV14objetos |-> Arr(<< ObjetoItem >>) ],
      [ CmpContext |-> "W0077", AV9Titular |-> <<"B">>, sdt |-> Arr(<<>>),
        AV14objetos |-> Arr(<< ObjetoItem, ObjetoItemBare >>) ],
      [ CmpContext |-> "W0077", AV9Titular |-> <<>>, sdt |-> Undef,
        AV14objetos |-> BadText ],
      [ CmpContext |-> "W0077", AV9Titular |-> <<>>, sdt |-> Undef,
        AV14objetos |-> NoText ] }

\* The answer to ENTER: null, or whether a message says there is no debt,
\* the gxValues entries, the W0077vOBJETOS hidden.
CamineraResults ==
    { [kind |-> "null"] }
      \cup [ kind : {"object"}, noDebt : BOOLEAN,
             gxValues : SeqsUpTo(CamineraContexts, MaxRows),
             W0077vOBJETOS : { NoText, BadText, Arr(<< ObjetoItemBare >>) } ]

\* [a, b].filter(Boolean).join(sep)
JoinTruthy(a, b, sep) ==
    IF a # <<>> /\ b # <<>> THEN a \o sep \o b ELSE a \o b

\* A variant that appends the separator and the titleholder always.
WithTitular_always(label, t) == label \o <<" ", "-", " ">> \o t

\* `label${t ? ' · ' + t : ''}`
WithTitular(label, t) == IF t # <<>> THEN label \o <<" ", "-", " ">> \o t ELSE label

CamineraSdtRecord(item, titular) ==
    [ acta |-> OrNull(Or(Get(item, "obnId"), Get(item, "concepto"))),
      fecha |-> OrNull(Get(item, "vencimiento")),
      descripcion |-> OrNull(JoinTruthy(Get(item, "concepto"), Get(item, "subConcepto"), <<" ", "-", " ">>)),
      lugar |-> Null,
      importe |-> NumOrNull(parseFloat(Or(Get(item, "importeTotal"), <<"0">>))),
      estado |-> EstadoOf(Or(Get(item, "tipo"), PENDIENTE)),
      jurisdiccion |-> WithTitular(<<"M", "e", "n", "d", "o", "z", "a", " ", "C", "a", "m", "i", "n", "e", "r", "a">>, titular) ]

CamineraObjetoRecord(item, titular) ==
    [ acta |-> OrNull(Or(Get(item, "ObnId"), Get(item, "tasa"))),
      fecha |-> OrNull(Get(item, "ocvfechavto")),
      descripcion |-> OrNull(Or(JoinTruthy(Get(item, "concepto"), Get(item, "subconcepto"), <<" ", "-", " ">>),
                                Get(item, "tasa"))),
      lugar |-> Null,
      importe |-> NumOrNull(parseFloat(Or(Or(Get(item, "cuotaDeudaTotal"), Get(item, "saldoCap")), <<"0">>))),
      estado |-> PENDIENTE,
      jurisdiccion |-> WithTitular(<<"M", "e", "n", "d", "o", "z", "a", " ", "C", "a", "m", "i", "n", "e", "r", "a">>, Or(Get(item, "persona"), titular)) ]

\* try { objetos = JSON.parse(text || '[]') } catch(_) {}
ParsedObjetos(text) == IF text.kind = "array" THEN text.items ELSE <<>>

\* A variant that adds the records of AV14objetos after those of the
\* structured list.
CamineraContextRecords_mixed(cx) ==
    IF cx.CmpContext # "W0077" THEN <<>>
    ELSE LET sdtList == OrV(cx.sdt, Arr(<<>>))
         IN  MapSeq(sdtList.items, LAMBDA item : CamineraSdtRecord(item, cx.AV9Titular))
               \o MapSeq(ParsedObjetos(cx.AV14objetos),
                         LAMBDA item : CamineraObjetoRecord(item, cx.AV9Titular))

\* The records one gxValues entry adds.
CamineraContextRecords(cx) ==
    IF cx.CmpContext # "W0077" THEN <<>>
    ELSE LET sdtList == OrV(cx.sdt, Arr(<<>>))
         IN  IF Len(sdtList.items) > 0
             THEN MapSeq(sdtList.items, LAMBDA item : CamineraSdtRecord(item, cx.AV9Titular))
             ELSE MapSeq(ParsedObjetos(cx.AV14objetos),
                         LAMBDA item : CamineraObjetoRecord(item, cx.AV9Titular))

RECURSIVE CamineraValuesRecords(_)
CamineraValuesRecords(gxValues) ==
    IF gxValues = <<>> THEN <<>>
    ELSE CamineraContextRecords(Head(gxValues)) \o CamineraValuesRecords(Tail(gxValues))

fetchMendozaCaminera_begin(d) ==
    Await("caminera_home",
          Req("GET", "session", CamineraUrl, [cookies |-> <<>>]), [jar |-> <<>>])

\* Step 1 to step 2: the tokens of GXState, the encrypted URL parameter,
\* then DOMINIO.CLICK.
fetchMendozaCaminera_home(d, c, home) ==
    IF ~home.hasGXState THEN Threw(MsgGXStateNotFound)
    ELSE IF home.GX_AJAX_KEY = "" \/ home.AJAX_SECURITY_TOKEN = ""
            \/ home.GX_AUTH_WPDEUDAONLINE = ""
    THEN Threw(MsgGXTokensMissing)
    ELSE IF home.GX_AJAX_KEY \notin ValidKeys THEN Threw(MsgInvalidKey)
    ELSE LET headers == [ url |-> gxEncrypt(GxFullAjaxEvt, home.GX_AJAX_KEY),
                          AJAX_SECURITY_TOKEN |-> home.AJAX_SECURITY_TOKEN,
                          X_GXAUTH_TOKEN |-> home.GX_AUTH_WPDEUDAONLINE,
                          GX_WEBSOCKET_ID |-> home.GX_WEBSOCKET_ID,
                          cookies |-> JarStore(c.jar, home.setCookie) ]
         IN  Await("caminera_click",
                   Req("POST", "activate", CamineraUrl,
                       [ event |-> "DOMINIO.CLICK", dominio |-> <<>>,
                         url |-> headers.url,
                         AJAX_SECURITY_TOKEN |-> headers.AJAX_SECURITY_TOKEN,
                         X_GXAUTH_TOKEN |-> headers.X_GXAUTH_TOKEN,
                         GX_WEBSOCKET_ID |-> headers.GX_WEBSOCKET_ID,
                         cookies |-> headers.cookies ]),
                   headers)

\* A variant whose ENTER carries no websocket id.
fetchMendozaCaminera_click_noSocket(d, c, clickResp) ==
    Await("caminera_enter",
          Req("POST", "submit", CamineraUrl,
              [ event |-> "ENTER", dominio |-> d,
                url |-> c.url,
                AJAX_SECURITY_TOKEN |-> c.AJAX_SECURITY_TOKEN,
                X_GXAUTH_TOKEN |-> c.X_GXAUTH_TOKEN,
                GX_WEBSOCKET_ID |-> "",
                cookies |-> c.cookies ]),
          c)

\* Step 2 to step 3: ENTER, with the URL and headers built in step 1.
fetchMendozaCaminera_click(d, c, clickResp) ==
    Await("caminera_enter",
          Req("POST", "submit", CamineraUrl,
              [ event |-> "ENTER", dominio |-> d,
                url |-> c.url,
                AJAX_SECURITY_TOKEN |-> c.AJAX_SECURITY_TOKEN,
                X_GXAUTH_TOKEN |-> c.X_GXAUTH_TOKEN,
                GX_WEBSOCKET_ID |-> c.GX_WEBSOCKET_ID,
                cookies |-> c.cookies ]),
          c)

fetchMendozaCaminera_res(d, c, result) ==
    IF result.kind = "null" THEN Threw(MsgNullResult)
    ELSE IF result.noDebt THEN Returned(<<>>)
    ELSE LET infracciones == CamineraValuesRecords(result.gxValues)
         IN  IF infracciones = <<>>
             THEN Returned(MapSeq(ParsedObjetos(result.W0077vOBJETOS),
                                  LAMBDA item : CamineraObjetoRecord(item, <<>>)))
             ELSE Returned(infracciones)

Caminera_call == /\ Calling(Backend, "fetchMendozaCaminera")
                 /\ Advance(fetchMendozaCaminera_begin(dominio), <<>>)
Caminera_home == /\ At(Backend, "caminera_home")
                 /\ \E home \in CamineraHomes :
                      Advance(fetchMendozaCaminera_home(dominio, ctx, home), << home >>)
Caminera_click == /\ At(Backend, "caminera_click")
                  /\ \E clickResp \in ClickAnswers :
                       Advance(fetchMendozaCaminera_click(dominio, ctx, clickResp), << clickResp >>)
Caminera_res == /\ At(Backend, "caminera_enter")
                /\ \E result \in CamineraResults :
                     Advance(fetchMendozaCaminera_res(dominio, ctx, result), << result >>)

\* ------------------------------------------------------------------ Salta

MsgSaltaInvalido == "Salta: Dominio invalido."
MsgSaltaMensaje == "Salta: El dominio no existe"
MsgInvalidTime == "Invalid time value"

SaltaPageUrl == "https://www.dgrmsalta.gov.ar/"
SaltaApiUrl == "https://rentas.dgrmsalta.gov.ar/api/automotores/multas"
SaltaSiteKey == "6LcO31EpAAAAACskh5BK2bB86lwBjRxTp5leeiz4"

FechaIso == <<"2", "0", "2", "4", "-", "0", "1", "-", "0", "2", "T", "1", "0", ":", "0", "0", ":", "0", "0">>

SaltaItem ==
    [ numeroObligacionImpuesto |-> <<"A", "8">>, fechaInfraccion |-> FechaIso,
      descripcion |-> <<"b">>, articulo |-> <<"a">>, calle |-> <<"g">>, altura |-> <<"1", "2">>,
      importe |-> <<"8", "0">>, estadoPlanPago |-> <<"P", "a", "g", "a", "d", "o">>, titular |-> <<"B">> ]
SaltaItemBare == [ estado |-> <<"b">> ]
SaltaItemBadDate == [ acta |-> <<"A", "9">>, fechaInfraccion |-> <<"a", "b">> ]

\* The answer, for the statuses validateStatus accepts: which of the
\* messages the code tells apart its message is, and the multas field.
SaltaAnswers ==
    [ status : {200, 404, 400},
      message : { "", "no posee multas", "otro" },
      multas : { Undef, Obj, Arr(<<>>), Arr(<< SaltaItem, SaltaItemBare >>),
                 Arr(<< SaltaItemBadDate >>), Arr(<< NullItem >>) } ]

\* new Date(text) is a valid date
IsDate(text) == text = FechaIso

\* new Date(text).toISOString().slice(0, 10)
IsoDay(text) == Slice(text, 0, 10)

SaltaItemRecord(i) ==
    [ acta |-> Or(Get(i, "numeroObligacionImpuesto"), Get(i, "acta")),
      fecha |-> IF Get(i, "fechaInfraccion") # <<>> THEN IsoDay(Get(i, "fechaInfraccion"))
                ELSE Null,
      descripcion |-> OrNull(JoinTruthy(Get(i, "descripcion"), Get(i, "articulo"), <<" ", "-", " ">>)),
      lugar |-> OrNull(JoinTruthy(Get(i, "calle"),
                                  IF Get(i, "altura") # <<>> THEN <<"N", " ">> \o Get(i, "altura")
                                  ELSE <<>>,
                                  <<" ">>)),
      importe |-> NumOrNull(parseFloat(Or(Or(Get(i, "importe"), Get(i, "monto")), <<"0">>))),
      estado |-> EstadoOf(Or(Or(Get(i, "estadoPlanPago"), Get(i, "estado")), PENDIENTE)),
      jurisdiccion |-> WithTitular(<<"S", "a", "l", "t", "a", " ", "C", "a", "p", "i", "t", "a", "l">>, Get(i, "titular")) ]

\* An item whose date text is no date makes toISOString throw.
HasBadDate(items) ==
    \E k \in 1..Len(items) :
        /\ ~IsNullItem(items[k])
        /\ Get(items[k], "fechaInfraccion") # <<>>
        /\ ~IsDate(Get(items[k], "fechaInfraccion"))

\* fetchSalta up to its first await, which is the solver's.
fetchSalta_begin(d) ==
    Await("salta_captcha",
          Req("solver", "challenge", SaltaPageUrl, [siteKey |-> SaltaSiteKey]), NoCtx)

fetchSalta_solved(d, c, captchaResult) ==
    Await("salta_post",
          Req("POST", "submit", SaltaApiUrl,
              [dominio |-> d, recaptcha |-> captchaResult.data, cookies |-> <<>>]),
          c)

fetchSalta_res(d, c, res) ==
    IF res.status = 404 \/ res.message = "no posee multas" THEN Returned(<<>>)
    ELSE IF res.status = 400
    THEN Threw(IF res.message # "" THEN MsgSaltaMensaje ELSE MsgSaltaInvalido)
    ELSE LET list == OrV(res.multas, Arr(<<>>))
         IN  IF list.kind # "array" THEN Returned(<<>>)
             ELSE IF HasNullItem(list.items) THEN Threw(MsgNullItem)
             ELSE IF HasBadDate(list.items) THEN Threw(MsgInvalidTime)
             ELSE Returned(MapSeq(list.items, SaltaItemRecord))

Salta_call == /\ Calling(Backend, "fetchSalta")
              /\ Advance(fetchSalta_begin(dominio), <<>>)
Salta_solved == /\ At(Backend, "salta_captcha")
                /\ \E r \in CaptchaResults : Advance(fetchSalta_solved(dominio, ctx, r), << r >>)
Salta_res == /\ At(Backend, "salta_post")
             /\ \E res \in SaltaAnswers : Advance(fetchSalta_res(dominio, ctx, res), << res >>)

\* ---------------------------------------------------------------- Cordoba

MsgCordobaError == "El portal de Cordoba devolvio un error inesperado."

CordobaUrl == "https://app.rentascordoba.gob.ar/WSRestDeudaAnt/public/all/caminera/dominio/"

Obligacion ==
    [ fechaLabrado |-> <<"0", "7">>, descripcion |-> <<"b">>, saldoTotal |-> <<"7", "0">>, estado |-> <<"P", "A", "G", "A", "D", "A">> ]
ObligacionBare == [ saldoTotal |-> <<>> ]

Contribuyente ==
    [ nombre |-> <<"B">>, apellido |-> <<"A">>,
      objetos |-> << [ referencia1 |-> <<"A", "7">>, obligaciones |-> << Obligacion, ObligacionBare >> ],
                     [ referencia1 |-> <<>>, obligaciones |-> << Obligacion >> ] >> ]
ContribuyenteSinNombre ==
    [ nombre |-> <<>>, apellido |-> <<>>,
      objetos |-> << [ referencia1 |-> <<"A", "7">>, obligaciones |-> << ObligacionBare >> ] >> ]

\* The answer: whether status.success is 'TRUE', and the contribuyentes of
\* its data (Undef when it has no data).
CordobaBodies ==
    [ success : BOOLEAN,
      data : { Undef, Arr(<<>>), Arr(<< Contribuyente >>),
               Arr(<< ContribuyenteSinNombre, Contribuyente >>) } ]

\* `${nombre || ''} ${apellido || ''}`.trim()
CordobaTitular(contribuyente) ==
    JoinTruthy(contribuyente.nombre, contribuyente.apellido, <<" ">>)

CordobaRecord(objeto, ob, titular) ==
    [ acta |-> OrNull(objeto.referencia1),
      fecha |-> OrNull(Get(ob, "fechaLabrado")),
      descripcion |-> OrNull(Get(ob, "descripcion")),
      lugar |-> Null,
      importe |-> NumOrNull(parseFloat(Or(Get(ob, "saldoTotal"), <<"0">>))),
      estado |-> EstadoOf(Get(ob, "estado")),
      jurisdiccion |-> WithTitular(<<"C", "o", "r", "d", "o", "b", "a", " ", "C", "a", "m", "i", "n", "e", "r", "a">>, titular) ]

RECURSIVE Flatten(_)
\* The concatenation of a sequence of sequences.
Flatten(ss) == IF ss = <<>> THEN <<>> ELSE Head(ss) \o Flatten(Tail(ss))

\* The three nested for-of loops.
CordobaRecords(contribuyentes) ==
    Flatten(MapSeq(contribuyentes, LAMBDA co :
        Flatten(MapSeq(co.objetos, LAMBDA objeto :
            MapSeq(objeto.obligaciones, LAMBDA ob :
                CordobaRecord(objeto, ob, CordobaTitular(co)))))))

fetchCordoba_begin(d) ==
    Await("cordoba_get",
          Req("GET", "submit", CordobaUrl, [dominio |-> d, cookies |-> <<>>]), NoCtx)

fetchCordoba_res(d, c, body) ==
    IF ~body.success THEN Threw(MsgCordobaError)
    ELSE IF body.data.kind = "undefined" THEN Returned(<<>>)
    ELSE Returned(CordobaRecords(body.data.items))

Cordoba_call == /\ Calling(Backend, "fetchCordoba")
                /\ Advance(fetchCordoba_begin(dominio), <<>>)
Cordoba_res == /\ At(Backend, "cordoba_get")
               /\ \E body \in CordobaBodies :
                    Advance(fetchCordoba_res(dominio, ctx, body), << body >>)

\* ------------------------------------------------------- ANSV (server.js)

MsgAnsvRecaptcha == "El portal ANSV/SINAI requiere reCAPTCHA; no se puede consultar automaticamente desde este backend. Proba con fuente=pba/caba/santafe."
MsgResNotDefined == "res is not defined"

\* The home page: whether its text holds "recaptcha", and its table rows.
LegacyAnsvHomes == [ recaptcha : BOOLEAN, rows : RowSeqs ]

legacyANSV_begin(d) ==
    Await("legacy_ansv_home",
          Req("GET", "session", AnsvPageUrl, [cookies |-> <<>>]), [jar |-> <<>>])

\* The rows of the home page; the fallback's condition reads `res`, which
\* this function never declares, so evaluating it throws a ReferenceError.
legacyANSV_home(d, c, home) ==
    IF home.recaptcha THEN Threw(MsgAnsvRecaptcha)
    ELSE LET infracciones == EachRow(home.rows, AnsvKeep, AnsvRowRecord)
         IN  IF infracciones = <<>> THEN Threw(MsgResNotDefined)
             ELSE Returned(infracciones)

LegacyANSV_call == /\ Calling(Legacy, "fetchANSV")
                   /\ Advance(legacyANSV_begin(dominio), <<>>)
LegacyANSV_home == /\ At(Legacy, "legacy_ansv_home")
                   /\ \E home \in LegacyAnsvHomes :
                        Advance(legacyANSV_home(dominio, ctx, home), << home >>)

\* -------------------------------------------------------- PBA (server.js)

LegacyPbaRestUrl == "https://infraccionesba.gba.gob.ar/rest/consultaInfraccion/dominio/"

\* The REST answer: an array, or an object with the fields a list is
\* looked up in.
LegacyPbaDatas ==
    { Arr(l) : l \in ItemLists }
      \cup [ kind : {"object"}, infracciones : { Undef, Arr(<< ItemPaid >>) },
             data : { Undef, Obj }, causas : { Undef, Arr(<< ItemOther >>) } ]

legacyPBA_begin(d) ==
    Await("legacy_pba_home",
          Req("GET", "session", PbaPageUrl, [cookies |-> <<>>]), NoCtx)

legacyPBA_home(d, c, home) ==
    Await("legacy_pba_rest",
          Req("GET", "submit", LegacyPbaRestUrl,
              [dominio |-> d, cookies |-> HeaderCookies(home.setCookie)]),
          [cookies |-> HeaderCookies(home.setCookie)])

\* Array.isArray(data) ? data : (data.infracciones || data.data || data.causas || [])
legacyPBA_res(d, c, data) ==
    IF data.kind = "array" THEN MapList(data, PbaItemRecord)
    ELSE MapList(OrV(OrV(OrV(data.infracciones, data.data), data.causas), Arr(<<>>)),
                 PbaItemRecord)

LegacyPBA_call == /\ Calling(Legacy, "fetchPBA")
                  /\ Advance(legacyPBA_begin(dominio), <<>>)
LegacyPBA_home == /\ At(Legacy, "legacy_pba_home")
                  /\ \E home \in [setCookie : CookieHeaders] :
                       Advance(legacyPBA_home(dominio, ctx, home), << home >>)
LegacyPBA_res == /\ At(Legacy, "legacy_pba_rest")
                 /\ \E data \in LegacyPbaDatas :
                      Advance(legacyPBA_res(dominio, ctx, data), << data >>)

\* ------------------------------------------------------- CABA (server.js)

LegacyCabaEndpoint == "https://tribunet.buenosaires.gob.ar/TribunetMainWEB/servlet/HAcceso"

LegacyCabaRowRecord(cols) ==
    [ acta |-> OrNull(Col(cols, 0)),
      fecha |-> OrNull(Col(cols, 1)),
      descripcion |-> OrNull(Col(cols, 2)),
      lugar |-> OrNull(Col(cols, 3)),
      importe |-> ImporteDot(Col(cols, 4)),
      estado |-> PENDIENTE,
      jurisdiccion |-> <<"C", "A", "B", "A">> ]

legacyCABA_begin(d) ==
    Await("legacy_caba_home",
          Req("GET", "session", CabaPageUrl, [cookies |-> <<>>]), NoCtx)

legacyCABA_home(d, c, home) ==
    Await("legacy_caba_post",
          Req("POST", "submit", LegacyCabaEndpoint,
              [patente |-> d, cookies |-> HeaderCookies(home.setCookie)]),
          [cookies |-> HeaderCookies(home.setCookie)])

legacyCABA_res(d, c, body) ==
    Returned(EachRow(body.rows, SkipFirstKeep, LegacyCabaRowRecord))

LegacyCABA_call == /\ Calling(Legacy, "fetchCABA")
                   /\ Advance(legacyCABA_begin(dominio), <<>>)
LegacyCABA_home == /\ At(Legacy, "legacy_caba_home")
                   /\ \E home \in [setCookie : CookieHeaders] :
                        Advance(legacyCABA_home(dominio, ctx, home), << home >>)
LegacyCABA_res == /\ At(Legacy, "legacy_caba_post")
                  /\ \E body \in [rows : RowSeqs] :
                       Advance(legacyCABA_res(dominio, ctx, body), << body >>)

\* ---------------------------------------------------------- specification

\* The process before its first request.
Idle ==
    /\ pc = "idle"
    /\ query = NoQuery
    /\ fuente = "ansv"
    /\ clean = <<>>
    /\ invoked = <<>>
    /\ ctx = NoCtx
    /\ log = <<>>
    /\ rcvd = <<>>
    /\ outcome = NoOutcome
    /\ resp = NoResp

Init ==
    /\ srv \in Servers
    /\ Idle
    /\ calls = <<>>
    /\ sample = NoSample
    /\ parsed = {}

Next ==
    \/ multas
    \/ listen
    \/ Reject
    \/ ANSV_call \/ ANSV_home \/ ANSV_solved \/ ANSV_res
    \/ PBA_call \/ PBA_home \/ PBA_solved \/ PBA_res
    \/ CABA_call \/ CABA_home \/ CABA_solved \/ CABA_res
    \/ SantaFe_call \/ SantaFe_res
    \/ Posadas_call \/ Posadas_res
    \/ Corrientes_call \/ Corrientes_home \/ Corrientes_res
    \/ EntreRios_call \/ EntreRios_valid \/ EntreRios_res
    \/ Misiones_call \/ Misiones_valid \/ Misiones_res
    \/ Chaco_call \/ Chaco_res
    \/ Rosario_call \/ Rosario_home \/ Rosario_solved \/ Rosario_res
    \/ Neuquen_call \/ Neuquen_res
    \/ SantaRosa_call \/ SantaRosa_home \/ SantaRosa_res
    \/ Mendoza_call \/ Mendoza_home \/ Mendoza_set \/ Mendoza_res
    \/ Caminera_call \/ Caminera_home \/ Caminera_click \/ Caminera_res
    \/ Salta_call \/ Salta_solved \/ Salta_res
    \/ Cordoba_call \/ Cordoba_res
    \/ LegacyANSV_call \/ LegacyANSV_home
    \/ LegacyPBA_call \/ LegacyPBA_home \/ LegacyPBA_res
    \/ LegacyCABA_call \/ LegacyCABA_home \/ LegacyCABA_res

Spec == Init /\ [][Next]_vars

\* Every await on the HTTP client settles: axios is created with a timeout,
\* so a request is answered or rejected.  The await on the solver is given
\* no timeout by the code: nothing makes it settle.
Settles == Next /\ pc \notin SolverPcs
FairSpec == Spec /\ WF_vars(Settles)

\* ------------------------------------------- invocations in flight together

\* Node runs the handlers of several requests interleaved at their awaits.
\* Each call of an adapter function has its own locals (jar, tokens,
\* cookies); http and solver are module-level, created once without a jar
\* and never assigned to.
MaxCalls == 2

CallAdapters == { "fetchANSV", "fetchCABA", "fetchMendoza" }
CallDominios == { <<"A", "B", "A", "1", "2", "3">> }

IdleCall ==
    [ adapter |-> "", dominio |-> <<>>, pc |-> "idle", ctx |-> NoCtx,
      log |-> <<>>, rcvd |-> <<>>, outcome |-> NoOutcome ]

NewCall(a, d) == [ IdleCall EXCEPT !.adapter = a, !.dominio = d, !.pc = "call" ]

\* A variant with a result cache: a call for an adapter and identifier
\* that an earlier call returned records for returns them at once.
BeginOf_cached(a, d) ==
    IF \E j \in DOMAIN calls :
           /\ calls[j].adapter = a /\ calls[j].dominio = d
           /\ calls[j].outcome.tag = "returned"
    THEN calls[CHOOSE j \in DOMAIN calls :
                   /\ calls[j].adapter = a /\ calls[j].dominio = d
                   /\ calls[j].outcome.tag = "returned"].outcome
    ELSE CASE a = "fetchANSV" -> fetchANSV_begin(d)
           [] a = "fetchCABA" -> fetchCABA_begin(d)
           [] a = "fetchMendoza" -> fetchMendoza_begin(d)

\* The adapter function up to its first await.
BeginOf(a, d) ==
    CASE a = "fetchANSV" -> fetchANSV_begin(d)
      [] a = "fetchCABA" -> fetchCABA_begin(d)
      [] a = "fetchMendoza" -> fetchMendoza_begin(d)

\* The adapter function from the await at p, resolved to got, to its next
\* await or its end.
StepOf(p, d, c, got) ==
    CASE p = "ansv_home" -> fetchANSV_home(d, c, got)
      [] p = "ansv_captcha" -> fetchANSV_solved(d, c, got)
      [] p = "ansv_post" -> fetchANSV_res(d, c, got)
      [] p = "caba_home" -> fetchCABA_home(d, c, got)
      [] p = "caba_captcha" -> fetchCABA_solved(d, c, got)
      [] p = "caba_post" -> fetchCABA_res(d, c, got)
      [] p = "mendoza_home" -> fetchMendoza_home(d, c, got)
      [] p = "mendoza_set" -> fetchMendoza_set(d, c, got)
      [] p = "mendoza_post" -> fetchMendoza_res(d, c, got)

\* What the await at p can resolve to.
AnswersAt(p) ==
    CASE p = "ansv_home" ->
           { h \in AnsvHomes : /\ h.siteKey = "k1" /\ h.eventValidation = "t2"
                                /\ (h.viewState = "") = (h.setCookie = <<>>) }
      [] p \in SolverPcs -> CaptchaResults
      [] p = "ansv_post" ->
           { b \in AnsvBodies : b.rows \in { <<>>, << RowPaid >> } /\ ~b.brace }
      [] p = "caba_home" -> [ setCookie : CookieHeaders \ { <<>> } ]
      [] p = "caba_post" -> { b \in CabaBodies : ~b.empty /\ b.cards = << CardPaid >> }
      [] p \in { "mendoza_home", "mendoza_set" } ->
           { m \in MendozaPages : m.p_page_submission_id # "" }
      [] p = "mendoza_post" ->
           { b \in MendozaBodies : b.rows = <<>> /\ ~b.successMsg }

\* A call after one step of its adapter function.
ApplyStep(call, r, got) ==
    IF r.tag = "await"
    THEN [ call EXCEPT !.pc = r.pc, !.log = Append(@, r.req),
                       !.rcvd = @ \o got, !.ctx = r.ctx ]
    ELSE [ call EXCEPT !.pc = "done", !.rcvd = @ \o got, !.outcome = r ]

\* A variant with locals held at module level: calls of the same adapter
\* at the same await read the locals of the first of them.
CallCtx_moduleLevel(i) ==
    IF calls[1].adapter = calls[i].adapter /\ calls[1].pc = calls[i].pc
    THEN calls[1].ctx
    ELSE calls[i].ctx

\* The locals call i reads when it resumes: its own.
CallCtx(i) == calls[i].ctx

OtherVarsIdle == UNCHANGED << requestVars, parseVars >>

\* A request arrives and its adapter runs to its first await.
CallStart ==
    /\ \E i \in DOMAIN calls, a \in CallAdapters, d \in CallDominios :
         /\ calls[i].pc = "idle"
         /\ calls' = [ calls EXCEPT ![i] = ApplyStep(NewCall(a, d), BeginOf(a, d), <<>>) ]
    /\ OtherVarsIdle

\* An await of one call resolves and that call runs to its next await.
CallAnswer ==
    /\ \E i \in DOMAIN calls :
         /\ calls[i].pc \notin {"idle", "done"}
         /\ \E got \in AnswersAt(calls[i].pc) :
              calls' = [ calls EXCEPT ![i] =
                           ApplyStep(@, StepOf(@.pc, @.dominio, CallCtx(i), got), << got >>) ]
    /\ OtherVarsIdle

\* An await of one call rejects.
CallReject ==
    /\ \E i \in DOMAIN calls :
         /\ calls[i].pc \notin {"idle", "done"}
         /\ \E m \in RejectMessages(calls[i].pc) \ { "Request failed with status code 500" } :
              calls' = [ calls EXCEPT ![i] = ApplyStep(@, Threw(m), << [rejected |-> m] >>) ]
    /\ OtherVarsIdle

ConcInit ==
    /\ srv = Backend
    /\ Idle
    /\ calls = [ i \in 1..MaxCalls |-> IdleCall ]
    /\ sample = NoSample
    /\ parsed = {}

ConcNext == CallStart \/ CallAnswer \/ CallReject

ConcSpec == ConcInit /\ [][ConcNext]_vars

\* ------------------------------------------------- parsing of row cells

\* The amount texts and the status texts a row cell may hold.
AmountTexts ==
    { <<"$", "1", ".", "2", "3", "4", ",", "5", "6">>,
      <<"1", "2", "3", "4", ".", "5", "6">>,
      <<"1", ",", "5">>,
      <<"$", " ", "1", "2", ".", "5">>,
      <<"b">>,
      <<>> }
StatusTexts == { <<"P", "a", "g", "a", "d", "a">>, <<"b">>, <<>> }

\* The adapters that build their records from the cells of rows or cards.
RowAdapters ==
    { "fetchANSV", "fetchCABA", "fetchSantaFe", "fetchPosadas", "fetchCorrientes",
      "fetchRosario", "fetchSantaRosa", "fetchMendoza" }

\* The importe and the estado an adapter gave to the sample.
Parsing(a, rec) ==
    /\ \A p \in parsed : p.adapter # a
    /\ parsed' = parsed \cup { [adapter |-> a, importe |-> rec.importe, estado |-> rec.estado] }
    /\ UNCHANGED << requestVars, callVars, sample >>

\* The adapters that read the amount from cols[4] of a table row, applied
\* to a row that holds the sample's amount there and its status in
\* cols[5]; fetchPosadas has the text of the page around the table too.
ParseTableRow ==
    /\ sample # NoSample
    /\ LET cols == << <<"A", "1">>, <<"0", "2">>, <<"b">>, <<"g">>,
                      sample.amount, sample.status, <<"B">> >>
       IN  \/ Parsing("fetchANSV", AnsvRowRecord(cols))
           \/ Parsing("fetchSantaFe", SantaFeRowRecord(cols))
           \/ \E pagOutside \in BOOLEAN :
                LET body == [phrases |-> {}, pagOutside |-> pagOutside,
                             rows |-> << RowHeader, cols >>]
                IN  Parsing("fetchPosadas", PosadasRowRecord(cols, BodyHasPag(body)))
           \/ Parsing("fetchCorrientes", CorrientesRowRecord(cols))
           \/ Parsing("fetchRosario", RosarioRowRecord(cols))
           \/ Parsing("fetchSantaRosa", SantaRosaRowRecord(cols))

\* fetchMendoza, applied to a row of the report that holds the sample's
\* amount in cols[8] (A Pagar) and its status in cols[14] (Estado).
ParseMendozaRow ==
    LET cols == << <<>>, <<"0", "2">>, <<"2", "4">>, <<"3">>, <<"b">>, <<"1">>, <<"a">>,
                   <<>>, sample.amount, <<"A", "1">>, <<"A", "B">>, <<"g">>,
                   <<>>, <<>>, sample.status >>
    IN  /\ sample # NoSample
        /\ Parsing("fetchMendoza", MendozaRowRecord(cols))

\* fetchCABA, applied to a card whose amount element holds the sample's
\* amount and whose remaining text is the sample's status.
ParseCabaCard ==
    LET card == [ acta |-> <<"A", "1">>, h6 |-> <<"A", "1">>, fecha |-> <<"0", "2">>,
                  descripcion |-> <<"b">>, lugar |-> <<"g">>,
                  importe |-> sample.amount, rest |-> sample.status ]
    IN  /\ sample # NoSample
        /\ Parsing("fetchCABA", CabaCardRecord(card))

ParseInit ==
    /\ srv = Backend
    /\ Idle
    /\ calls = <<>>
    /\ sample \in [amount : AmountTexts, status : StatusTexts]
    /\ parsed = {}

ParseNext == ParseTableRow \/ ParseMendozaRow \/ ParseCabaCard

ParseSpec == ParseInit /\ [][ParseNext]_vars

\* ------------------------------------------------------------ the codec

\* Longest plaintext given to gxEncrypt.
MaxPlain == 33

\* The plaintexts: the event name the adapter encrypts, and texts of every
\* length up to MaxPlain.
Plaintexts == { GxFullAjaxEvt } \cup { [k \in 1..n |-> "a"] : n \in 0..MaxPlain }
HexKeys == { "k1", "k2" }

\* gxEncrypt(plaintext, hexKey) applied to the sample.
Encrypt ==
    /\ sample # NoSample
    /\ parsed = {}
    /\ parsed' = { gxEncrypt(sample.plaintext, sample.hexKey) }
    /\ UNCHANGED << requestVars, callVars, sample >>

CodecInit ==
    /\ srv = Backend
    /\ Idle
    /\ calls = <<>>
    /\ sample \in [plaintext : Plaintexts, hexKey : HexKeys]
    /\ parsed = {}

CodecNext == Encrypt

CodecSpec == CodecInit /\ [][CodecNext]_vars

\* ------------------------------------------------------------- properties

\* The request was dispatched to an adapter of backend-server.js / server.js.
Dispatched == invoked # <<>>
Running(s, adapter) == Dispatched /\ srv = s /\ invoked[1].adapter = adapter

\* The source id of the request as the route reads it.
PassedFuente == IF query.fuente = Absent THEN "ansv" ELSE query.fuente

Contains(seq, x) == \E k \in 1..Len(seq) : seq[k] = x
Rejected(k) == k <= Len(rcvd) /\ "rejected" \in DOMAIN rcvd[k]
StepsFollow(order) ==
    /\ Len(log) <= Len(order)
    /\ \A k \in 1..Len(log) : log[k].step = order[k]

\* C1: fetchANSV of backend-server.js, called with an identifier of the
\* 7-character layout (2 letters, 3 digits, 2 letters), issues no network
\* request and no solver request, and ends with the unsupported-format
\* error: the format check comes before any request.
C1_AnsvRejectsMercosur ==
    (Running(Backend, "fetchANSV") /\ IsMercosur(invoked[1].dominio)) =>
        /\ log = <<>>
        /\ rcvd = <<>>
        /\ pc \in {"call", "done"}
        /\ pc = "done" => (outcome = Threw(MsgAnsvFormato) /\ resp.status = 502)

C1_Witness ==
    /\ Running(Backend, "fetchANSV")
    /\ IsMercosur(invoked[1].dominio)
    /\ pc = "done"
    /\ outcome.tag = "threw"
    /\ log = <<>>

\* The adapter that belongs to each of the fifteen known source ids.
AdapterOf ==
    [ f \in KnownFuentes |->
        CASE f = "pba" -> "fetchPBA"
          [] f = "caba" -> "fetchCABA"
          [] f = "santafe" -> "fetchSantaFe"
          [] f = "posadas" -> "fetchPosadas"
          [] f = "corrientes" -> "fetchCorrientes"
          [] f = "entrerios" -> "fetchEntreRios"
          [] f = "misiones" -> "fetchMisiones"
          [] f = "chaco" -> "fetchChaco"
          [] f = "rosario" -> "fetchRosario"
          [] f = "neuquen" -> "fetchNeuquen"
          [] f = "santarosa" -> "fetchSantaRosa"
          [] f = "mendoza" -> "fetchMendoza"
          [] f = "cordoba" -> "fetchCordoba"
          [] f = "mendozacaminera" -> "fetchMendozaCaminera"
          [] f = "salta" -> "fetchSalta" ]

\* One adapter is invoked, once, with the cleaned identifier: the own
\* adapter of a source id in own, the ANSV adapter for every other value.
RoutesTo(own) ==
    Dispatched =>
        /\ Len(invoked) = 1
        /\ invoked[1].dominio = Clean(query.dominio)
        /\ invoked[1].adapter =
             IF query.fuente \in own THEN AdapterOf[query.fuente] ELSE "fetchANSV"

\* C2 (as stated): in both dispatchers each of the fifteen known source ids
\* invokes only its own adapter, and every other value (absent id,
\* "__unknown__", "ansv") invokes the ANSV adapter with the cleaned
\* identifier.
C2_EveryKnownSourceHasItsAdapter == RoutesTo(KnownFuentes)

\* C2 (amended): the dispatcher of backend-server.js maps each of the
\* fifteen known source ids to its own adapter; the dispatcher of server.js
\* does so for pba, caba and santafe only; in each file every other value
\* (absent id, "__unknown__", "ansv") invokes the ANSV adapter with the
\* cleaned identifier, exactly one adapter being invoked per request.
C2_EverySourceOfTheFileHasItsAdapter ==
    RoutesTo(IF srv = Backend THEN KnownFuentes ELSE LegacyFuentes)

C2_Witness ==
    /\ srv = Backend
    /\ query.fuente = "__unknown__"
    /\ pc = "ansv_home"
    /\ invoked = << [adapter |-> "fetchANSV", dominio |-> Clean(query.dominio)] >>

\* C3: every failure inside an adapter (a throw of the adapter at any step,
\* or a rejected request or solver call) ends the request with one 502
\* answer whose error holds the source id the caller passed and the
\* reason text of the failure unchanged; a dispatched request always ends
\* with an answer.
C3_FailureIsCaughtWithSourceAndReason ==
    /\ (pc = "done" /\ Dispatched) =>
         (outcome.tag \in {"returned", "threw"} /\ resp.status \in {200, 502})
    /\ outcome.tag = "threw" =>
         /\ pc = "done"
         /\ resp.status = 502
         /\ Contains(resp.error, PassedFuente)
         /\ Contains(resp.error, outcome.message)
    /\ (rcvd # <<>> /\ Rejected(Len(rcvd))) =>
         /\ outcome.tag = "threw"
         /\ outcome.message = rcvd[Len(rcvd)].rejected

C3_Witness ==
    /\ pc = "done"
    /\ query.fuente = "rosario"
    /\ Len(log) = 3
    /\ Rejected(3)
    /\ outcome.tag = "threw"
    /\ resp.status = 502

\* C4: a dispatched request ends with exactly one of two answers: a success
\* holding the cleaned identifier, the source id and the records the
\* adapter returned (an empty sequence included), or a failure holding one
\* error message and no records; a returned empty sequence is answered as
\* a success, a failure never as a sequence.
C4_SuccessOrFailure ==
    (pc = "done" /\ Dispatched) =>
        \/ /\ outcome.tag = "returned"
           /\ DOMAIN resp = {"status", "dominio", "fuente", "infracciones"}
           /\ resp.status = 200
           /\ resp.dominio = Clean(query.dominio)
           /\ resp.fuente = PassedFuente
           /\ resp.infracciones = outcome.infracciones
        \/ /\ outcome.tag = "threw"
           /\ DOMAIN resp = {"status", "error"}
           /\ resp.status = 502
           /\ resp.error # <<>>

C4_Witness ==
    /\ pc = "done"
    /\ Dispatched
    /\ outcome.tag = "returned"
    /\ outcome.infracciones = <<>>
    /\ resp.status = 200
    /\ resp.infracciones = <<>>

\* The last answer the adapter received, when it is the answer the adapter
\* parses after its n-th request.
ParsedAnswer(n) == Len(rcvd) = n /\ Len(log) = n /\ ~Rejected(n)

\* C5 (as stated): in fetchPosadas, fetchCorrientes and fetchRosario an
\* answer whose text holds "no registra" yields an empty record sequence,
\* whatever rows the answer holds.
C5_NoRegistraYieldsEmpty ==
    \A a \in { <<"fetchPosadas", 1>>, <<"fetchCorrientes", 2>>, <<"fetchRosario", 3>> } :
        ( /\ Running(Backend, a[1])
          /\ pc = "done"
          /\ ParsedAnswer(a[2])
          /\ "no registra" \in rcvd[a[2]].phrases ) =>
            outcome = Returned(<<>>)

\* The answer the adapter parsed matches its no-records signal and its
\* error signal.
MatchesBoth ==
    \/ /\ Running(Backend, "fetchSantaRosa") /\ ParsedAnswer(2)
       /\ rcvd[2].noSeEncontraron /\ rcvd[2].errText
    \/ /\ Running(Backend, "fetchRosario") /\ ParsedAnswer(3)
       /\ rcvd[3].phrases \cap RosarioPhrases # {} /\ rcvd[3].errorSummary
    \/ /\ Running(Backend, "fetchMendoza") /\ ParsedAnswer(3)
       /\ rcvd[3].nodatafound /\ rcvd[3].successMsg
    \/ /\ Running(Backend, "fetchNeuquen") /\ ParsedAnswer(1)
       /\ (rcvd[1].status = 404 \/ rcvd[1].error = MsgNeuquenSinInfracciones)
       /\ rcvd[1].status \in {503, 422}
    \/ /\ Running(Backend, "fetchSalta") /\ ParsedAnswer(2)
       /\ (rcvd[2].status = 404 \/ rcvd[2].message = "no posee multas")
       /\ rcvd[2].status = 400
    \/ /\ Running(Backend, "fetchCABA") /\ ParsedAnswer(3)
       /\ rcvd[3].noRegistras /\ rcvd[3].empty

\* C6 (as stated): in fetchSantaRosa, fetchRosario, fetchMendoza,
\* fetchNeuquen, fetchSalta and fetchCABA an answer that matches both the
\* no-records signal and the error signal is classified as empty (the
\* adapter returns no records), not as a failure.
C6_SentinelBeforeError ==
    (pc = "done" /\ MatchesBoth) => outcome = Returned(<<>>)

\* C7: fetchMendoza issues the session GET, then the state-setting GET
\* (session id, item names and values), then the POST; the POST carries
\* p_instance, p_page_submission_id, pSalt and pPageItemsProtected of the
\* state-setting answer and the cookies as they stand after that answer
\* (every cookie it set, with the value it set, one value per key).
C7_MendozaSubmitsStateSettingTokens ==
    Running(Backend, "fetchMendoza") =>
        /\ StepsFollow(<< "session", "state", "submit" >>)
        /\ Len(log) >= 2 =>
             /\ ~Rejected(1)
             /\ log[2].op = "GET"
             /\ log[2].sent.session = rcvd[1].p_instance
             /\ log[2].sent.itemNames = MendozaItemNames(invoked[1].dominio)
             /\ log[2].sent.itemValues = MendozaItemValues(invoked[1].dominio)
        /\ Len(log) = 3 =>
             LET post == log[3].sent
                 setResp == rcvd[2]
             IN  /\ ~Rejected(2)
                 /\ log[3].op = "POST"
                 /\ post.p_instance = setResp.p_instance
                 /\ post.p_page_submission_id = setResp.p_page_submission_id
                 /\ post.pSalt = setResp.pSalt
                 /\ post.pPageItemsProtected = setResp.pPageItemsProtected
                 /\ \A h \in 1..Len(setResp.setCookie) :
                      Contains(post.cookies, setResp.setCookie[h])
                 /\ \A i, j \in 1..Len(post.cookies) :
                      post.cookies[i][1] = post.cookies[j][1] => i = j

C7_Witness ==
    /\ Running(Backend, "fetchMendoza")
    /\ Len(log) = 3
    /\ rcvd[1].p_instance # rcvd[2].p_instance
    /\ rcvd[1].p_page_submission_id # rcvd[2].p_page_submission_id
    /\ rcvd[1].pSalt # rcvd[2].pSalt
    /\ rcvd[1].pPageItemsProtected # rcvd[2].pPageItemsProtected
    /\ rcvd[1].setCookie = << <<"sid", "c1">> >>
    /\ Contains(rcvd[2].setCookie, <<"sid", "c2">>)
    /\ log[3].sent.pSalt = rcvd[2].pSalt
    /\ Contains(log[3].sent.cookies, <<"sid", "c2">>)

\* C8: fetchMendozaCaminera sends ENTER (with the identifier) only as its
\* third request, after DOMINIO.CLICK was sent and answered; both go to
\* the same encrypted-parameter URL with the security token, the auth
\* token and the websocket id of the first page; when the DOMINIO.CLICK
\* request fails, ENTER is not sent and the invocation fails.
C8_EnterOnlyAfterClick ==
    Running(Backend, "fetchMendozaCaminera") =>
        /\ StepsFollow(<< "session", "activate", "submit" >>)
        /\ Len(log) >= 2 =>
             /\ ~Rejected(1)
             /\ log[2].sent.event = "DOMINIO.CLICK"
             /\ log[2].sent.url = gxEncrypt(GxFullAjaxEvt, rcvd[1].GX_AJAX_KEY)
             /\ log[2].sent.AJAX_SECURITY_TOKEN = rcvd[1].AJAX_SECURITY_TOKEN
             /\ log[2].sent.X_GXAUTH_TOKEN = rcvd[1].GX_AUTH_WPDEUDAONLINE
             /\ log[2].sent.GX_WEBSOCKET_ID = rcvd[1].GX_WEBSOCKET_ID
        /\ Len(log) = 3 =>
             /\ Len(rcvd) >= 2
             /\ ~Rejected(2)
             /\ log[3].sent.event = "ENTER"
             /\ log[3].sent.dominio = invoked[1].dominio
             /\ log[3].url = log[2].url
             /\ log[3].sent.url = log[2].sent.url
             /\ log[3].sent.AJAX_SECURITY_TOKEN = log[2].sent.AJAX_SECURITY_TOKEN
             /\ log[3].sent.X_GXAUTH_TOKEN = log[2].sent.X_GXAUTH_TOKEN
             /\ log[3].sent.GX_WEBSOCKET_ID = log[2].sent.GX_WEBSOCKET_ID
        /\ Rejected(2) => (Len(log) = 2 /\ pc = "done" /\ outcome.tag = "threw")

C8_Witness ==
    /\ Running(Backend, "fetchMendozaCaminera")
    /\ Len(log) = 3
    /\ log[3].sent.event = "ENTER"
    /\ log[3].sent.GX_WEBSOCKET_ID = "w1"
    /\ pc = "done"
    /\ outcome.tag = "returned"

\* C9: in fetchANSV, fetchPBA, fetchCABA and fetchRosario of
\* backend-server.js the requests are the session request, then the
\* solver request, then the submission, in this order; each is issued
\* only after the answer to the one before it was received without
\* failure, the submission carries the solution the solver returned, and
\* after a failure at any step no further request is issued.
C9_StrictStepOrder ==
    \A a \in { "fetchANSV", "fetchPBA", "fetchCABA", "fetchRosario" } :
        Running(Backend, a) =>
            /\ StepsFollow(<< "session", "challenge", "submit" >>)
            /\ Len(rcvd) <= Len(log)
            /\ \A k \in 2..Len(log) : k - 1 <= Len(rcvd) /\ ~Rejected(k - 1)
            /\ Len(log) >= 2 => log[2].op = "solver"
            /\ Len(log) = 3 => log[3].sent.recaptcha = rcvd[2].data
            /\ pc \notin {"call", "done"} => Len(log) = Len(rcvd) + 1
            /\ outcome.tag = "threw" => (pc = "done" /\ Len(log) = Len(rcvd))

C9_Witness ==
    /\ Running(Backend, "fetchRosario")
    /\ pc = "done"
    /\ Len(log) = 3
    /\ Len(rcvd) = 3
    /\ log[3].sent.recaptcha = "g2"
    /\ outcome.tag = "returned"

\* A hidden anti-forgery field the adapter submits is absent from the page
\* the adapter reads it from.
HiddenFieldMissing ==
    \/ /\ (Running(Backend, "fetchANSV") \/ Running(Backend, "fetchCorrientes"))
       /\ Len(rcvd) >= 1 /\ ~Rejected(1)
       /\ (rcvd[1].viewState = "" \/ rcvd[1].eventValidation = "")
    \/ /\ Running(Backend, "fetchMendoza")
       /\ Len(rcvd) >= 2 /\ ~Rejected(2)
       /\ \/ rcvd[2].p_page_submission_id = ""
          \/ rcvd[2].pSalt = ""
          \/ rcvd[2].pPageItemsProtected = ""
    \/ /\ Running(Backend, "fetchPBA")
       /\ Len(rcvd) >= 1 /\ ~Rejected(1)
       /\ rcvd[1].token = ""
    \/ /\ Running(Backend, "fetchSantaRosa")
       /\ Len(rcvd) >= 1 /\ ~Rejected(1)
       /\ rcvd[1].csrf = ""

\* C10 (as stated): in fetchANSV, fetchCorrientes, fetchMendoza, fetchPBA
\* and fetchSantaRosa, when a required hidden anti-forgery field is absent
\* from the session page, no submission request is issued and the
\* invocation ends failed.
C10_MissingHiddenFieldFails ==
    HiddenFieldMissing =>
        /\ \A k \in 1..Len(log) : log[k].step # "submit"
        /\ pc = "done" => outcome.tag = "threw"

\* The first answer lacks the session artifact of the adapter: no
\* JSESSIONID cookie (Rosario), no p_instance (Mendoza), no cookie at all
\* (CABA).
SessionArtifactMissing ==
    /\ Len(rcvd) >= 1
    /\ ~Rejected(1)
    /\ \/ /\ Running(Backend, "fetchRosario")
          /\ \A h \in 1..Len(rcvd[1].setCookie) : rcvd[1].setCookie[h][1] # "JSESSIONID"
       \/ /\ Running(Backend, "fetchMendoza")
          /\ rcvd[1].p_instance = ""
       \/ /\ Running(Backend, "fetchCABA")
          /\ rcvd[1].setCookie = <<>>

\* C11 (as stated): in fetchRosario, fetchMendoza and fetchCABA, when the
\* first answer does not hold the session artifact, the invocation ends
\* failed and neither a solver request nor a submission request is issued.
C11_MissingSessionArtifactFails ==
    SessionArtifactMissing =>
        /\ \A k \in 1..Len(log) : log[k].step \notin {"challenge", "submit"}
        /\ pc = "done"
        /\ outcome.tag = "threw"

\* C12 (as stated): every invocation of fetchANSV, fetchPBA, fetchCABA,
\* fetchRosario or fetchSalta of backend-server.js eventually ends (with
\* records, empty or failed), also when the solver never answers.
C12_CaptchaAdaptersTerminate ==
    \A a \in { "fetchANSV", "fetchPBA", "fetchCABA", "fetchRosario", "fetchSalta" } :
        [](Running(Backend, a) => <>(pc = "done"))

\* A call run alone from its start over the answers in the given order.
RECURSIVE Replay(_, _)
Replay(call, answers) ==
    IF answers = <<>> THEN call
    ELSE LET got == Head(answers)
             r == IF "rejected" \in DOMAIN got THEN Threw(got.rejected)
                  ELSE StepOf(call.pc, call.dominio, call.ctx, got)
         IN  Replay(ApplyStep(call, r, << got >>), Tail(answers))

Alone(call) ==
    Replay(ApplyStep(NewCall(call.adapter, call.dominio),
                     BeginOf(call.adapter, call.dominio), <<>>),
           call.rcvd)

SetsCookies(j) == j <= Len(rcvd) /\ ~Rejected(j) /\ "setCookie" \in DOMAIN rcvd[j]

\* Header h of answer j is replaced, before request k, by a later header
\* for the same cookie name.
Superseded(j, h, k) ==
    \E j2 \in j..(k - 1) :
        /\ SetsCookies(j2)
        /\ \E h2 \in 1..Len(rcvd[j2].setCookie) :
             /\ (j2 > j \/ h2 > h)
             /\ rcvd[j2].setCookie[h2][1] = rcvd[j].setCookie[h][1]

\* C14 (as stated): within one invocation, every HTTP request after the
\* first carries every cookie set by every earlier answer of the same
\* invocation (with the value set last), the answer to DOMINIO.CLICK and
\* the validation answers of Entre Rios and Misiones included.
C14_EveryCookieIsCarried ==
    Dispatched =>
        \A k \in 2..Len(log) :
            log[k].op # "solver" =>
                \A j \in 1..(k - 1) :
                    SetsCookies(j) =>
                        \A h \in 1..Len(rcvd[j].setCookie) :
                            \/ Superseded(j, h, k)
                            \/ /\ "cookies" \in DOMAIN log[k].sent
                               /\ Contains(log[k].sent.cookies, rcvd[j].setCookie[h])

\* The requests of the running adapter to the solver, and its requests
\* that carry a solver token.
SolverRequests == { k \in 1..Len(log) : log[k].op = "solver" }
TokenRequests == { k \in 1..Len(log) : "recaptcha" \in DOMAIN log[k].sent }

\* C15: in fetchANSV, fetchPBA, fetchCABA, fetchRosario and fetchSalta of
\* backend-server.js one invocation asks the solver at most once; the
\* token the solver returned is carried by exactly one request, the
\* submission that follows the solver request, and by no other request.
C15_OneChallengeOneSubmission ==
    \A a \in { "fetchANSV", "fetchPBA", "fetchCABA", "fetchRosario", "fetchSalta" } :
        Running(Backend, a) =>
            /\ Cardinality(SolverRequests) <= 1
            /\ Cardinality(TokenRequests) <= 1
            /\ \A k \in TokenRequests :
                 /\ k - 1 \in SolverRequests
                 /\ log[k].step = "submit"
                 /\ log[k].sent.recaptcha = rcvd[k - 1].data
            /\ \A k \in SolverRequests :
                 (k < Len(log)) => (k + 1 \in TokenRequests)
            /\ \A k \in SolverRequests :
                 (k <= Len(rcvd) /\ ~Rejected(k)) => (k + 1 \in TokenRequests)

C15_Witness ==
    /\ Running(Backend, "fetchSalta")
    /\ pc = "done"
    /\ SolverRequests = {1}
    /\ TokenRequests = {2}
    /\ log[2].sent.recaptcha = "g1"
    /\ rcvd[1].data = "g1"

\* C16: a request that passes validation invokes exactly one adapter,
\* the one the switch selects, exactly once: the invocation is the same
\* from the dispatch to the answer, no step re-enters the call of an
\* adapter, and a throw of the adapter ends the request with the 502
\* answer, with no retry and no other adapter tried.
C16_OneAdapterInvokedOnce ==
    /\ [](Dispatched =>
            /\ Len(invoked) = 1
            /\ invoked[1] = [adapter |-> Switch(srv, fuente), dominio |-> clean]
            /\ (pc = "call" => log = <<>> /\ rcvd = <<>>)
            /\ (outcome # NoOutcome /\ outcome.tag = "threw" =>
                    pc = "done" /\ resp.status = 502))
    /\ [][Dispatched =>
            /\ pc' # "call"
            /\ invoked' \in { invoked, <<>> }
            /\ (invoked' = <<>> => pc = "done" /\ pc' = "idle")]_vars

C16_Witness ==
    /\ srv = Backend
    /\ fuente = "santafe"
    /\ Len(invoked) = 1
    /\ invoked[1].adapter = "fetchSantaFe"
    /\ outcome # NoOutcome
    /\ outcome.tag = "threw"
    /\ pc = "done"
    /\ resp.status = 502

\* C17: every record of a successful answer has a payment status that is
\* one of 'pagada' and 'pendiente', whatever path produced the record.
C17_EstadoIsPagadaOrPendiente ==
    (outcome # NoOutcome /\ outcome.tag = "returned") =>
        \A k \in 1..Len(outcome.infracciones) :
            outcome.infracciones[k].estado \in { PAGADA, PENDIENTE }

\* The rows of the last answer that the running adapter turns into
\* records, in order.
KeptRows ==
    LET body == rcvd[Len(rcvd)]
    IN  IF invoked[1].adapter = "fetchANSV"
        THEN EachRow(body.rows, AnsvKeep, LAMBDA cols : cols)
        ELSE EachRow(body.rows, SkipFirstKeep, LAMBDA cols : cols)

\* C18: in the answers of fetchANSV, fetchSantaFe and fetchPosadas that
\* are built from table rows, the estado of each record is 'pagada'
\* exactly when the status cell of its own row (the cell after the
\* amount) contains "pag" in any letter case, and 'pendiente' otherwise.
C18_EstadoFromOwnStatusText ==
    \A a \in { "fetchANSV", "fetchSantaFe", "fetchPosadas" } :
        ( /\ Running(Backend, a)
          /\ outcome # NoOutcome
          /\ outcome.tag = "returned"
          /\ Len(outcome.infracciones) = Len(KeptRows) ) =>
            \A j \in 1..Len(KeptRows) :
                outcome.infracciones[j].estado = EstadoOf(Col(KeptRows[j], 5))

\* The amount the stated policy gives to a cell text: the characters other
\* than digits, dot and comma are stripped; with a comma left, the dots
\* are removed and the comma is the decimal separator; a text that does
\* not parse to a number gives null.
PolicyAmount(text) ==
    LET kept == KeepDigitsDotComma(text)
    IN  IF Contains(kept, ",")
        THEN NumOrNull(parseFloat(ReplaceFirstComma(SelectSeq(kept, LAMBDA c : c # "."))))
        ELSE NumOrNull(parseFloat(kept))

\* C19: every row-based adapter gives an amount text the importe of the
\* stated policy; so "$1.234,56" and "1234.56" give 1234.56, and "" and a
\* text with no digit give null.
C19_ImporteFollowsThePolicy ==
    \A p \in parsed :
        /\ p.importe = PolicyAmount(sample.amount)
        /\ sample.amount \in { <<"$", "1", ".", "2", "3", "4", ",", "5", "6">>,
                               <<"1", "2", "3", "4", ".", "5", "6">> }
             => p.importe = << 123456, 2 >>
        /\ sample.amount \in { <<>>, <<"b">> } => p.importe = Null

\* C20: the row-based adapters parse amount and status with one and the
\* same function: from the same amount text and the same status text any
\* two of them give the same importe and the same estado.
C20_AdaptersParseAlike ==
    \A p \in parsed : \A q \in parsed :
        p.importe = q.importe /\ p.estado = q.estado

\* C21: in every record of a successful answer each of acta, fecha,
\* descripcion and lugar is null or a non-empty text, never the empty
\* text.
C21_MissingFieldIsNull ==
    (outcome # NoOutcome /\ outcome.tag = "returned") =>
        \A k \in 1..Len(outcome.infracciones) :
            LET rec == outcome.infracciones[k]
            IN  /\ rec.acta # <<>>
                /\ rec.fecha # <<>>
                /\ rec.descripcion # <<>>
                /\ rec.lugar # <<>>

\* The fixed label of the adapters that append the titleholder.
TitularLabel(adapter) ==
    CASE adapter = "fetchMendozaCaminera" ->
           <<"M", "e", "n", "d", "o", "z", "a", " ", "C", "a", "m", "i", "n", "e", "r", "a">>
      [] adapter = "fetchSalta" ->
           <<"S", "a", "l", "t", "a", " ", "C", "a", "p", "i", "t", "a", "l">>
      [] adapter = "fetchCordoba" ->
           <<"C", "o", "r", "d", "o", "b", "a", " ", "C", "a", "m", "i", "n", "e", "r", "a">>

\* text is the label, or the label, the separator and a non-empty
\* titleholder.
LabelWithOptionalTitular(text, label) ==
    \/ text = label
    \/ /\ Len(text) > Len(label) + 3
       /\ SubSeq(text, 1, Len(label) + 3) = label \o <<" ", "-", " ">>

\* C22: in every record of a successful answer jurisdiccion is a
\* non-empty text; a row of the ANSV table without a jurisdiction cell
\* gets the fixed label 'Nacional'; and in fetchMendozaCaminera,
\* fetchSalta and fetchCordoba it is the fixed label, followed by the
\* separator and the titleholder only when the titleholder is not empty.
C22_JurisdiccionIsNeverEmpty ==
    (outcome # NoOutcome /\ outcome.tag = "returned") =>
        /\ \A k \in 1..Len(outcome.infracciones) :
             LET j == outcome.infracciones[k].jurisdiccion
             IN  /\ j # <<>>
                 /\ j # Null
                 /\ invoked[1].adapter \in { "fetchMendozaCaminera", "fetchSalta", "fetchCordoba" }
                      => LabelWithOptionalTitular(j, TitularLabel(invoked[1].adapter))
        /\ ( /\ Running(Backend, "fetchANSV")
             /\ Len(outcome.infracciones) = Len(KeptRows) ) =>
               \A k \in 1..Len(KeptRows) :
                    outcome.infracciones[k].jurisdiccion =
                        IF Col(KeptRows[k], 6) = <<>>
                        THEN <<"N", "a", "c", "i", "o", "n", "a", "l">>
                        ELSE Col(KeptRows[k], 6)

C22_Witness ==
    /\ Running(Backend, "fetchCordoba")
    /\ outcome # NoOutcome
    /\ outcome.tag = "returned"
    /\ \E k \in 1..Len(outcome.infracciones) :
         outcome.infracciones[k].jurisdiccion = TitularLabel("fetchCordoba")
    /\ \E k \in 1..Len(outcome.infracciones) :
         Len(outcome.infracciones[k].jurisdiccion) > Len(TitularLabel("fetchCordoba"))

\* The last answer of the finished invocation has a shape none of the
\* adapter's parsing strategies recognizes (no table row that is kept, no
\* array under any expected key), for fetchPosadas, fetchEntreRios and
\* fetchSalta; and whether a no-records sentinel matched in it.
UnrecognizedShape ==
    LET last == rcvd[Len(rcvd)]
    IN  CASE invoked[1].adapter = "fetchPosadas" ->
               KeptRows = <<>>
          [] invoked[1].adapter = "fetchEntreRios" ->
               /\ Len(rcvd) = 2
               /\ last.kind = "object"
               /\ OrV(OrV(OrV(last.infracciones, last.data), last.items), Obj).kind # "array"
          [] invoked[1].adapter = "fetchSalta" ->
               /\ Len(rcvd) = 2
               /\ last.status = 200
               /\ last.multas.kind \notin { "array", "undefined" }
          [] OTHER -> FALSE

SentinelMatched ==
    LET last == rcvd[Len(rcvd)]
    IN  CASE invoked[1].adapter = "fetchPosadas" -> "no registra" \in last.phrases
          [] invoked[1].adapter = "fetchSalta" ->
               last.status = 404 \/ last.message = "no posee multas"
          [] OTHER -> FALSE

\* C23: an invocation whose last answer has an unrecognized shape ends
\* with an empty sequence only if a no-records sentinel matched in the
\* answer; otherwise it ends with a failure.
C23_UnrecognizedShapeFails ==
    ( /\ Dispatched
      /\ srv = Backend
      /\ pc = "done"
      /\ Len(rcvd) > 0
      /\ Len(rcvd) = Len(log)
      /\ ~Rejected(Len(rcvd))
      /\ UnrecognizedShape
      /\ ~SentinelMatched ) => outcome.tag = "threw"

\* ceil(n / 16)
BlocksFor(n) == (n + 15) \div 16

\* C24: for a plaintext of n bytes the ciphertext of gxEncrypt has
\* 16 * ceil(n / 16) bytes, twice as many hex characters: 16 bytes for 1
\* to 15 and for 16 bytes, 32 for 20 bytes, always a multiple of 16; the
\* block input is the plaintext followed by zero bytes only.
C24_ZeroPadsToBlockBoundary ==
    \A c \in parsed :
        LET n == Len(sample.plaintext)
            bytes == Len(c.blocks)
            hex == 2 * bytes
        IN  /\ bytes = 16 * BlocksFor(n)
            /\ hex = 32 * BlocksFor(n)
            /\ bytes % 16 = 0
            /\ (n \in 1..16) => bytes = 16
            /\ (n = 20) => bytes = 32
            /\ SubSeq(c.blocks, 1, n) = sample.plaintext
            /\ \A k \in (n + 1)..bytes : c.blocks[k] = Zero

C24_Witness ==
    /\ sample # NoSample
    /\ "plaintext" \in DOMAIN sample
    /\ Len(sample.plaintext) = 20
    /\ \E c \in parsed : Len(c.blocks) = 32

\* text is 3 letters and 3 digits, or 2 letters, 3 digits and 2 letters,
\* the letters uppercase.
TwoLayouts(text) ==
    \/ /\ Len(text) = 6
       /\ \A k \in 1..3 : text[k] \in UpperLetters
       /\ \A k \in 4..6 : text[k] \in Digits
    \/ /\ Len(text) = 7
       /\ \A k \in {1, 2, 6, 7} : text[k] \in UpperLetters
       /\ \A k \in 3..5 : text[k] \in Digits

\* The identifier the caller sent, without its whitespace and in
\* uppercase.
SentIdentifier ==
    LET kept == SelectSeq(query.dominio, LAMBDA ch : ch \notin Whitespace)
    IN  [k \in 1..Len(kept) |-> toUpperCase(kept[k])]

\* C25: the adapter is invoked with the identifier the caller sent,
\* uppercased and without whitespace, and only when that has one of the
\* two layouts; a request whose identifier is missing or has neither
\* layout is rejected with status 400, no adapter is invoked and no
\* request is issued.
C25_OnlyValidIdentifiersReachAdapters ==
    pc # "idle" =>
        /\ Dispatched =>
             /\ invoked[1].dominio = SentIdentifier
             /\ TwoLayouts(invoked[1].dominio)
             /\ \A k \in 1..Len(invoked[1].dominio) :
                  invoked[1].dominio[k] \in UpperLetters \cup Digits
        /\ (query.dominio = <<>> \/ ~TwoLayouts(SentIdentifier)) =>
             /\ invoked = <<>>
             /\ log = <<>>
             /\ rcvd = <<>>
             /\ outcome = NoOutcome
             /\ pc = "done"
             /\ resp.status = 400

C25_Witness ==
    /\ pc = "done"
    /\ query # NoQuery
    /\ query.dominio = <<"A", "B", "1">>
    /\ invoked = <<>>
    /\ log = <<>>
    /\ resp.status = 400

\* The first k answers of two invocations are the same.
SameAnswers(a, b, k) ==
    /\ k <= Len(a.rcvd)
    /\ k <= Len(b.rcvd)
    /\ SubSeq(a.rcvd, 1, k) = SubSeq(b.rcvd, 1, k)

SolverFailed ==
    /\ Len(rcvd) > 0
    /\ Rejected(Len(rcvd))
    /\ log[Len(rcvd)].op = "solver"

\* C27: when the solver rejects, the invocation that asked it ends as a
\* failure, answered with status 502 and the solver's message, and its
\* last request is the one to the solver: no submission is issued.  The
\* process then waits for requests again, and while it waits every
\* request is accepted.
C27_SolverFailureIsNotFatal ==
    /\ [](SolverFailed =>
            /\ pc = "done"
            /\ outcome = Threw(rcvd[Len(rcvd)].rejected)
            /\ resp.status = 502
            /\ Len(log) = Len(rcvd)
            /\ \A k \in 1..Len(log) : "recaptcha" \notin DOMAIN log[k].sent)
    /\ [](pc = "idle" => ENABLED multas)
    /\ SolverFailed ~> (pc = "idle")

C27_Witness ==
    /\ SolverFailed
    /\ Running(Backend, "fetchRosario")
    /\ pc = "done"
    /\ resp.status = 502

\* The ANSV adapter finished on the answer that holds the results, and no
\* row of its tables was kept.
AnsvZeroRows ==
    /\ Dispatched
    /\ invoked[1].adapter = "fetchANSV"
    /\ pc = "done"
    /\ Len(rcvd) = (IF srv = Backend THEN 3 ELSE 1)
    /\ ~Rejected(Len(rcvd))
    /\ (srv = Legacy => ~rcvd[1].recaptcha)
    /\ KeptRows = <<>>

\* C28: in the ANSV adapter of both programs an answer with zero table
\* rows never fails the invocation: the records are those of the JSON
\* shape of the same body, and the empty sequence when the body is not
\* JSON or holds no list; with rows kept the JSON shape is not tried.
C28_AnsvFallsBackToJson ==
    /\ AnsvZeroRows =>
         /\ outcome.tag = "returned"
         /\ ( srv = Backend /\ ( \/ rcvd[3].json = NotJson
                                 \/ OrV(OrV(OrV(rcvd[3].json.infracciones, rcvd[3].json.data),
                                            rcvd[3].json.items), Arr(<<>>)).kind # "array" ) )
              => outcome.infracciones = <<>>
    /\ ( /\ Running(Backend, "fetchANSV")
         /\ pc = "done"
         /\ Len(rcvd) = 3
         /\ ~Rejected(3)
         /\ KeptRows # <<>> ) =>
           outcome = Returned(EachRow(rcvd[3].rows, AnsvKeep, AnsvRowRecord))

\* C29: in fetchEntreRios and fetchMisiones the first request is the
\* validation of the identifier and the list request is the second, issued
\* only after a validation answer without error; a validation answer with
\* an error ends the invocation as a failure with the adapter's 'dominio
\* no encontrado' message, the validation being its only request.
C29_ValidationBeforeList ==
    \A a \in { "fetchEntreRios", "fetchMisiones" } :
        Running(Backend, a) =>
            /\ \A k \in 1..Len(log) :
                 /\ (log[k].step = "validate") = (k = 1)
                 /\ (log[k].step = "submit") = (k = 2)
            /\ Len(log) >= 2 => (Len(rcvd) >= 1 /\ ~Rejected(1) /\ ~rcvd[1].error)
            /\ (Len(rcvd) >= 1 /\ ~Rejected(1) /\ rcvd[1].error) =>
                 /\ pc = "done"
                 /\ Len(log) = 1
                 /\ outcome = Threw(IF a = "fetchEntreRios" THEN MsgEntreRiosDominio
                                    ELSE MsgMisionesDominio)
                 /\ resp.status = 502

C29_Witness ==
    /\ Running(Backend, "fetchEntreRios")
    /\ Len(rcvd) = 1
    /\ ~Rejected(1)
    /\ rcvd[1].error
    /\ outcome = Threw(MsgEntreRiosDominio)
    /\ Len(log) = 1

\* C30: fetchNeuquen classifies the answer in this order: status 503 is
\* the maintenance failure, whatever the body says; otherwise status 404
\* or the error text 'No se encontraron infracciones' is the empty result;
\* otherwise status 422 is the format failure; otherwise a data field that
\* is no array is a failure; and records are returned only for an array
\* in data, one per element, in order.
C30_NeuquenClassifiesInOrder ==
    ( /\ Running(Backend, "fetchNeuquen")
      /\ pc = "done"
      /\ Len(rcvd) = 1
      /\ ~Rejected(1) ) =>
        LET res == rcvd[1]
            sentinel == res.status = 404 \/ res.error = MsgNeuquenSinInfracciones
        IN  /\ res.status = 503 => outcome = Threw(MsgNeuquenMantenimiento)
            /\ (res.status # 503 /\ sentinel) => outcome = Returned(<<>>)
            /\ (res.status = 422 /\ ~sentinel) => outcome = Threw(MsgNeuquenFormato)
            /\ (res.status = 200 /\ ~sentinel /\ res.data.kind # "array") =>
                 /\ outcome.tag = "threw"
                 /\ outcome.message \notin { MsgNeuquenMantenimiento, MsgNeuquenFormato }
            /\ (outcome.tag = "returned" /\ ~sentinel) =>
                 /\ res.status = 200
                 /\ res.data.kind = "array"
                 /\ Len(outcome.infracciones) = Len(res.data.items)
                 /\ \A k \in 1..Len(res.data.items) :
                      outcome.infracciones[k] = NeuquenItemRecord(res.data.items[k])
            /\ ( /\ res.status = 200 /\ ~sentinel /\ res.data.kind = "array"
                 /\ ~HasNullItem(res.data.items) ) => outcome.tag = "returned"

C30_Witness ==
    /\ Running(Backend, "fetchNeuquen")
    /\ pc = "done"
    /\ Len(rcvd) = 1
    /\ ~Rejected(1)
    /\ rcvd[1].status = 503
    /\ rcvd[1].error = MsgNeuquenSinInfracciones
    /\ outcome = Threw(MsgNeuquenMantenimiento)

\* The records one gxValues entry is due, by the claim's order: the items
\* of the structured list when it has any, else the items of AV14objetos.
SdtItemsOf(cx) == IF cx.sdt = Undef THEN <<>> ELSE cx.sdt.items
StrategyCount(cx) ==
    IF cx.CmpContext # "W0077" THEN 0
    ELSE IF Len(SdtItemsOf(cx)) > 0 THEN Len(SdtItemsOf(cx))
    ELSE Len(ParsedObjetos(cx.AV14objetos))
RECURSIVE CountBefore(_, _)
CountBefore(gxValues, i) ==
    IF i <= 1 THEN 0
    ELSE CountBefore(gxValues, i - 1) + StrategyCount(gxValues[i - 1])

\* C31: fetchMendozaCaminera applies its strategies in a fixed order: a
\* no-debt message gives the empty result before any strategy; each W0077
\* entry of gxValues gives the records of its structured list when that
\* list is non-empty and the records of AV14objetos only when it is empty,
\* never both; the W0077vOBJETOS hidden is used only when the entries gave
\* no record in total.
C31_StrategiesInOrder ==
    ( /\ Running(Backend, "fetchMendozaCaminera")
      /\ pc = "done"
      /\ ParsedAnswer(3)
      /\ rcvd[3].kind = "object" ) =>
        LET result == rcvd[3]
            n == Len(result.gxValues)
            total == CountBefore(result.gxValues, n + 1)
        IN  /\ outcome.tag = "returned"
            /\ result.noDebt => outcome.infracciones = <<>>
            /\ (~result.noDebt /\ total > 0) =>
                 /\ Len(outcome.infracciones) = total
                 /\ \A i \in 1..n :
                      LET cx == result.gxValues[i]
                          off == CountBefore(result.gxValues, i)
                      IN  \A k \in 1..StrategyCount(cx) :
                            outcome.infracciones[off + k] =
                              IF Len(SdtItemsOf(cx)) > 0
                              THEN CamineraSdtRecord(SdtItemsOf(cx)[k], cx.AV9Titular)
                              ELSE CamineraObjetoRecord(ParsedObjetos(cx.AV14objetos)[k],
                                                        cx.AV9Titular)
            /\ (~result.noDebt /\ total = 0) =>
                 LET objetos == ParsedObjetos(result.W0077vOBJETOS)
                 IN  /\ Len(outcome.infracciones) = Len(objetos)
                     /\ \A k \in 1..Len(objetos) :
                          outcome.infracciones[k] = CamineraObjetoRecord(objetos[k], <<>>)

\* A W0077 entry with both a structured list and AV14objetos, after an
\* entry that has only AV14objetos: three records, none from the
\* AV14objetos of the entry that has a structured list.
C31_Witness ==
    /\ Running(Backend, "fetchMendozaCaminera")
    /\ pc = "done"
    /\ ParsedAnswer(3)
    /\ rcvd[3].kind = "object"
    /\ ~rcvd[3].noDebt
    /\ Len(rcvd[3].gxValues) = 2
    /\ Len(SdtItemsOf(rcvd[3].gxValues[1])) = 0
    /\ Len(ParsedObjetos(rcvd[3].gxValues[1].AV14objetos)) = 2
    /\ Len(SdtItemsOf(rcvd[3].gxValues[2])) = 2
    /\ Len(ParsedObjetos(rcvd[3].gxValues[2].AV14objetos)) = 1
    /\ rcvd[3].W0077vOBJETOS.kind = "array"
    /\ outcome.tag = "returned"
    /\ Len(outcome.infracciones) = 4

\* The adapters that read records off table rows, and the answer of a
\* finished call when the records came from its rows: no sentinel phrase
\* or flag short-circuited the table (fetchANSV reads a JSON body instead
\* when no row gave a record).
RowBasedAdapters ==
    { "fetchANSV", "fetchSantaFe", "fetchPosadas", "fetchCorrientes", "fetchRosario",
      "fetchSantaRosa", "fetchMendoza", "fetchCABA" }
TableAnswered ==
    /\ Dispatched
    /\ invoked[1].adapter \in RowBasedAdapters
    /\ pc = "done"
    /\ outcome.tag = "returned"
    /\ Len(rcvd) > 0
    /\ ~Rejected(Len(rcvd))
    /\ LET body == rcvd[Len(rcvd)]
       IN  /\ "rows" \in DOMAIN body
           /\ "phrases" \in DOMAIN body => body.phrases = {}
           /\ "noSeEncontraron" \in DOMAIN body => ~body.noSeEncontraron
           /\ "nodatafound" \in DOMAIN body => ~body.nodatafound

\* A matched row with at least the adapter's minimum number of cells (and,
\* in fetchMendoza, a non-empty date cell).
FullRow(adapter, cols) ==
    IF adapter = "fetchANSV" THEN Len(cols) >= 3
    ELSE IF adapter = "fetchMendoza" THEN Len(cols) >= 10 /\ cols[2] # <<>>
    ELSE Len(cols) >= 2
FullRows(adapter, rows) == SelectSeq(rows, LAMBDA cols : FullRow(adapter, cols))

\* C32 (as stated): a row-based adapter returns exactly one record for
\* each matched row with at least its minimum number of cells, in the order
\* of the rows, and none for a shorter row; never more records than
\* matched rows.
C32_OneRecordPerFullRow ==
    TableAnswered =>
        LET rows == rcvd[Len(rcvd)].rows
            full == FullRows(invoked[1].adapter, rows)
        IN  (invoked[1].adapter = "fetchANSV" => full # <<>>) =>
              /\ Len(outcome.infracciones) <= Len(rows)
              /\ Len(outcome.infracciones) = Len(full)

\* The adapters whose row callback returns at once for index 0.
SkipsFirstRow ==
    \/ invoked[1].adapter \in { "fetchSantaFe", "fetchPosadas", "fetchCorrientes",
                                "fetchRosario" }
    \/ srv = Legacy /\ invoked[1].adapter = "fetchCABA"

\* C33: in fetchSantaFe, fetchPosadas, fetchCorrientes, fetchRosario and
\* the fetchCABA of server.js the first matched row never gives a record,
\* whatever cells it has: the records are those of the later rows with at
\* least 2 cells, in order, so a first row with at least 2 cells is dropped
\* and the answer has one record fewer than there are such rows.
C33_FirstMatchedRowIsDropped ==
    (TableAnswered /\ SkipsFirstRow) =>
        LET rows == rcvd[Len(rcvd)].rows
            later == FullRows(invoked[1].adapter, SubSeq(rows, 2, Len(rows)))
        IN  /\ Len(outcome.infracciones) = Len(later)
            /\ \A j \in 1..Len(later) :
                 outcome.infracciones[j].acta = later[j][1]
            /\ (rows # <<>> /\ Len(rows[1]) >= 2) =>
                 Len(outcome.infracciones) =
                   Len(FullRows(invoked[1].adapter, rows)) - 1

\* Two data rows are matched and only the second gives a record.
C33_Witness ==
    /\ TableAnswered
    /\ Running(Backend, "fetchSantaFe")
    /\ rcvd[Len(rcvd)].rows = << RowPaid, RowPending >>
    /\ Len(outcome.infracciones) = 1
    /\ outcome.infracciones[1].acta = <<"A", "2">>

\* C34: in every record of a successful answer importe is null or a
\* non-zero number, never NaN; of the table rows of fetchANSV, fetchSantaFe
\* and fetchPosadas, a row whose amount cell is absent, empty or zero gives
\* null.
C34_ImporteIsNullOrNonZero ==
    (outcome # NoOutcome /\ outcome.tag = "returned") =>
        /\ \A k \in 1..Len(outcome.infracciones) :
             LET importe == outcome.infracciones[k].importe
             IN  importe # Null =>
                   /\ importe # NaN
                   /\ Len(importe) = 2
                   /\ importe[1] # 0
        /\ ( /\ invoked[1].adapter \in { "fetchANSV", "fetchSantaFe", "fetchPosadas" }
             /\ srv = Backend
             /\ Len(outcome.infracciones) = Len(KeptRows) ) =>
               \A j \in 1..Len(KeptRows) :
                   ( \/ Len(KeptRows[j]) < 5
                     \/ KeptRows[j][5] \in { <<>>, <<"0">> } ) =>
                       outcome.infracciones[j].importe = Null

\* A row whose amount cell is "0" gave a record with a null importe, next
\* to a row with a non-zero amount.
C34_Witness ==
    /\ Running(Backend, "fetchANSV")
    /\ pc = "done"
    /\ outcome.tag = "returned"
    /\ rcvd[Len(rcvd)].rows = << RowPending, RowPaid >>
    /\ Len(outcome.infracciones) = 2
    /\ outcome.infracciones[1].importe = Null
    /\ outcome.infracciones[2].importe # Null

\* C35: fetchMendoza fills exactly one group of plate fields and sends the
\* other empty (PRIMER_LETRA, NUM_INTER, ULT_LETRA for a 7-character
\* identifier; LETRAS, NUMEROS for a 6-character one); the parts the
\* state-setting GET writes into session state are the parts of the POST,
\* under the same names, and the filled parts in order spell the
\* identifier.
C35_OnePlateGroupSpellsTheIdentifier ==
    (Running(Backend, "fetchMendoza") /\ Len(log) >= 2) =>
        LET d == invoked[1].dominio
            set == log[2].sent
            names == IF Len(d) = 7
                     THEN << "P4000_MZA_PRIMER_LETRA", "P4000_MZA_NUM_INTER",
                             "P4000_MZA_ULT_LETRA" >>
                     ELSE << "P4000_MZA_LETRAS", "P4000_MZA_NUMEROS" >>
            all == { "P4000_MZA_PRIMER_LETRA", "P4000_MZA_NUM_INTER", "P4000_MZA_ULT_LETRA",
                     "P4000_MZA_LETRAS", "P4000_MZA_NUMEROS" }
        IN  /\ log[2].step = "state"
            /\ Len(d) \in {6, 7}
            /\ set.itemNames = names
            /\ Len(set.itemValues) = Len(names)
            /\ \A k \in 1..Len(names) : set.itemValues[k] # <<>>
            /\ d = IF Len(names) = 3
                   THEN set.itemValues[1] \o set.itemValues[2] \o set.itemValues[3]
                   ELSE set.itemValues[1] \o set.itemValues[2]
            /\ Len(log) >= 3 =>
                 LET fields == log[3].sent.plateFields
                 IN  /\ log[3].step = "submit"
                     /\ DOMAIN fields = all
                     /\ \A k \in 1..Len(names) : fields[names[k]] = set.itemValues[k]
                     /\ \A f \in all :
                          (\A k \in 1..Len(names) : names[k] # f) => fields[f] = <<>>

\* The POST of a 7-character identifier: three parts filled, two empty.
C35_Witness ==
    /\ Running(Backend, "fetchMendoza")
    /\ Len(log) = 3
    /\ Len(invoked[1].dominio) = 7
    /\ log[3].sent.plateFields.P4000_MZA_PRIMER_LETRA = <<"A", "B">>
    /\ log[3].sent.plateFields.P4000_MZA_NUM_INTER = <<"1", "2", "3">>
    /\ log[3].sent.plateFields.P4000_MZA_ULT_LETRA = <<"B", "A">>
    /\ log[3].sent.plateFields.P4000_MZA_LETRAS = <<>>
    /\ log[2].sent.itemValues = << <<"A", "B">>, <<"1", "2", "3">>, <<"B", "A">> >>

\* The Set-Cookie headers of an answer that hold a session id.
SessionHeaders(headers) ==
    { k \in 1..Len(headers) : headers[k][1] = "JSESSIONID" /\ headers[k][2] # "" }

\* C36: the POST of fetchRosario carries one session id, in its URL and in
\* its cookies alike: the JSESSIONID of the first Set-Cookie header of the
\* form page that holds one; a later JSESSIONID of that answer, which is
\* the one the jar keeps, is not sent.
C36_OneSessionIdTheFirst ==
    (Running(Backend, "fetchRosario") /\ Len(log) >= 3) =>
        LET headers == rcvd[1].setCookie
            ks == SessionHeaders(headers)
            post == log[3]
        IN  /\ post.step = "submit"
            /\ ks # {}
            /\ LET first == headers[CHOOSE k \in ks : \A j \in ks : k <= j][2]
               IN  /\ post.sent.urlSession = first
                   /\ Contains(post.sent.cookies, <<"JSESSIONID", first>>)
                   /\ \A k \in 1..Len(post.sent.cookies) :
                        post.sent.cookies[k][1] = "JSESSIONID" =>
                          post.sent.cookies[k][2] = first

\* The form page set two session ids; the jar keeps the second and the POST
\* carries the first.
C36_Witness ==
    /\ Running(Backend, "fetchRosario")
    /\ Len(log) = 3
    /\ rcvd[1].setCookie = << <<"aux", "c3">>, <<"JSESSIONID", "s1">>, <<"JSESSIONID", "s2">> >>
    /\ Contains(ctx.jar, <<"JSESSIONID", "s2">>)
    /\ log[3].sent.urlSession = "s1"
    /\ Contains(log[3].sent.cookies, <<"JSESSIONID", "s1">>)

=============================================================================
